---- MODULE Spec2Model ----
(***************************************************************************)
(* Whole-lot removal strategy (stock_whole_lot_removal): the lot selection *)
(* algorithm of stock.quant, the reservation of whole lots by stock.move   *)
(* and the post-validation steps of stock.picking.                         *)
(*                                                                         *)
(* Quantities are integers counted in halves of the unit-of-measure        *)
(* rounding (rounding == 2), so that float_compare / float_is_zero round   *)
(* as odoo.tools does (HALF-UP to a multiple of the rounding) and          *)
(* "within tolerance" differs from plain equality.                         *)
(***************************************************************************)
EXTENDS Integers, Sequences, FiniteSets, TLC

VARIABLES
    quant,        \* the ledger: location -> lot -> [quantity, reserved_quantity]
    move,         \* stock.move records by id (one move per picking)
    sol,          \* the sale order line: its three sources of selected lots
    op,           \* the last operation run and its arguments
    sel_lots,     \* _whole_lot_select_lots: the available_lots argument
    sel_need,     \* _whole_lot_select_lots: the need argument
    sel_result,   \* _whole_lot_select_lots: the returned list
    sel_pc,       \* "call" before the call, "return" after it
    g_quants,     \* the stock.quant records of the product at one location
    g_lot,        \* the pending lot the force-assign loop is at
    g_available,  \* what _get_whole_lot_available_quants did on g_quants
    g_force,      \* what the force-assign loop computed for g_lot
    g_pc,         \* "call" before a call on g_quants, then the call made
    pass          \* per move, how far a stepwise run of _assign_whole_lots is

sel_vars == <<sel_lots, sel_need, sel_result, sel_pc>>
sys_vars == <<quant, move, sol, op>>
g_vars == <<g_quants, g_lot, g_available, g_force, g_pc>>
vars == <<quant, move, sol, op, sel_lots, sel_need, sel_result, sel_pc,
          g_quants, g_lot, g_available, g_force, g_pc, pass>>

(***************************************************************************)
(* Bounds of the model.                                                    *)
(***************************************************************************)
MaxEntries == 3      \* longest available_lots list drawn for the selector
MaxQty == 10         \* largest free quantity of an entry drawn for the selector
MaxNeed == 15        \* largest need drawn for the selector
NumLots == 4         \* lots of the product in the warehouse
MaxQuants == 3       \* most stock.quant records drawn for one location

(***************************************************************************)
(* odoo.tools float helpers, precision_rounding = product.uom_id.rounding. *)
(***************************************************************************)
rounding == 2

Abs(v) == IF v < 0 THEN -v ELSE v
Min(a, b) == IF a <= b THEN a ELSE b
Max(a, b) == IF a >= b THEN a ELSE b

\* float_round(value, precision_rounding=rounding), rounding_method HALF-UP:
\* the nearest multiple of the rounding, halves away from zero.
float_round(v) ==
    LET n == (2 * Abs(v) + rounding) \div (2 * rounding)
    IN IF v < 0 THEN -(n * rounding) ELSE n * rounding

float_is_zero(v) == Abs(float_round(v)) < rounding

float_compare(a, b) ==
    LET delta == float_round(a) - float_round(b)
    IN IF float_is_zero(delta) THEN 0
       ELSE IF delta < 0 THEN -1 ELSE 1

(***************************************************************************)
(* Sequence helpers.                                                       *)
(***************************************************************************)

LotIdsOf(s) == {s[i].lot_id : i \in 1..Len(s)}

(***************************************************************************)
(* StockQuant._whole_lot_select_lots(available_lots, need, rounding).      *)
(* An entry is [lot_id, available_qty]; the list is in FIFO order.         *)
(***************************************************************************)

\* Step 1 (lines 86-89): the first entry equal to the need within tolerance.
ExactMatches(available_lots, need) ==
    {i \in 1..Len(available_lots) :
        float_compare(available_lots[i].available_qty, need) = 0}

\* Step 2 (lines 93-107): the greedy FIFO loop from entry i on; returns the
\* selection and the remaining need when the loop ends or breaks.
\* (mutant of Fits: the comparison inverted)
Fits_Inverted(lot_qty, remaining_need) ==
    float_compare(lot_qty, remaining_need) >= 0

\* Lines 98-100: the lot's full quantity fits within the remaining need.
Fits(lot_qty, remaining_need) ==
    float_compare(lot_qty, remaining_need) <= 0

RECURSIVE GreedyLoop(_, _, _, _)
GreedyLoop(available_lots, i, selected, remaining_need) ==
    IF i > Len(available_lots)
    THEN [selected |-> selected, remaining_need |-> remaining_need]
    ELSE LET lot_qty == available_lots[i].available_qty
         IN IF Fits(lot_qty, remaining_need)
            THEN IF float_is_zero(remaining_need - lot_qty)
                 THEN [selected |-> Append(selected, available_lots[i]),
                       remaining_need |-> remaining_need - lot_qty]
                 ELSE GreedyLoop(available_lots, i + 1,
                                 Append(selected, available_lots[i]),
                                 remaining_need - lot_qty)
            ELSE GreedyLoop(available_lots, i + 1, selected, remaining_need)

GreedyPass(available_lots, need) == GreedyLoop(available_lots, 1, <<>>, need)

\* A last scan that adds the first unselected entry whenever some need
\* remains, whatever the entry holds.
GapFill_FirstUnselected(available_lots, g) ==
    IF float_compare(g.remaining_need, 0) > 0
    THEN LET selected_lot_ids == LotIdsOf(g.selected)
             left == {i \in 1..Len(available_lots) :
                        available_lots[i].lot_id \notin selected_lot_ids}
         IN IF left = {}
            THEN g.selected
            ELSE Append(g.selected,
                        available_lots[CHOOSE i \in left : \A j \in left : i <= j])
    ELSE g.selected

\* Step 3 (lines 111-121): one more scan for a single unselected entry equal
\* to the remaining need.
GapFill(available_lots, g) ==
    IF float_compare(g.remaining_need, 0) > 0
    THEN LET selected_lot_ids == LotIdsOf(g.selected)
             fits == {i \in 1..Len(available_lots) :
                        /\ available_lots[i].lot_id \notin selected_lot_ids
                        /\ float_compare(available_lots[i].available_qty,
                                         g.remaining_need) = 0}
         IN IF fits = {}
            THEN g.selected
            ELSE Append(g.selected,
                        available_lots[CHOOSE i \in fits : \A j \in fits : i <= j])
    ELSE g.selected

\* (mutant of _whole_lot_select_lots: step 1 left out)
SelectLots_NoExactStep(available_lots, need) ==
    IF available_lots = <<>>
    THEN <<>>
    ELSE GapFill(available_lots, GreedyPass(available_lots, need))

\* A selector that cuts lots to the need, as the standard FIFO reservation
\* does: each lot in turn gives what is still needed, up to what it has.
RECURSIVE SliceLoop(_, _)
SliceLoop(available_lots, remaining_need) ==
    IF available_lots = <<>> \/ remaining_need <= 0 THEN <<>>
    ELSE LET e == Head(available_lots)
             take == Min(e.available_qty, remaining_need)
         IN << [e EXCEPT !.available_qty = take] >>
            \o SliceLoop(Tail(available_lots), remaining_need - take)

SelectLots_Slicing(available_lots, need) == SliceLoop(available_lots, need)

_whole_lot_select_lots(available_lots, need) ==
    IF available_lots = <<>>
    THEN <<>>
    ELSE LET exact == ExactMatches(available_lots, need)
         IN IF exact # {}
            THEN << available_lots[CHOOSE i \in exact : \A j \in exact : i <= j] >>
            ELSE GapFill(available_lots, GreedyPass(available_lots, need))

(***************************************************************************)
(* The warehouse.  One product under the whole_lot strategy, its lots, two *)
(* stock locations (Stock, then the intermediate Output) and a two-step    *)
(* delivery: the PICK move (Stock -> Output) feeds the OUT move (Output -> *)
(* Customer).  "bo" is the backorder of the PICK move, created when PICK   *)
(* is validated for part of its lines; "other" is a move of another order  *)
(* out of Stock.  A state S is [quant, move]; sol is read only.            *)
(***************************************************************************)
Lots == 1..NumLots
StockLocations == {"Stock", "Output"}
MoveIds == {"pick", "out", "other", "bo"}
MoveOrder == << "pick", "out", "other", "bo" >>     \* recordset order (by id)
Actionable == {"confirmed", "partially_available", "waiting"}


RECURSIVE SumLines(_)
SumLines(lines) ==
    IF lines = <<>> THEN 0 ELSE Head(lines).quantity + SumLines(Tail(lines))

LineLots(lines) == {lines[i].lot_id : i \in 1..Len(lines)}

RECURSIVE SortedSeq(_)
SortedSeq(set) ==
    IF set = {} THEN <<>>
    ELSE LET first == CHOOSE x \in set : \A y \in set : x <= y
         IN << first >> \o SortedSeq(set \ {first})

\* A recordset of moves in id order.
MovesIn(set) == SelectSeq(MoveOrder, LAMBDA m : m \in set)

\* quant.in_date: the lots were received in the order of their ids, and a
\* transfer carries the date along, so FIFO order is lot order.
in_date(lot) == lot

SetQuant(S, loc, lot, q) ==
    [S EXCEPT !.quant = [@ EXCEPT ![loc] = [@ EXCEPT ![lot] = q]]]

SetState(S, m, state) == [S EXCEPT !.move[m].state = state]

\* One statement after another: the state S the first statement leaves is
\* computed once, and Rest is what the following statements make of it.
Then(S, Rest(_)) == CHOOSE T \in {Rest(V) : V \in {S}} : TRUE

\* quantity - reserved_quantity summed over the quants of a lot at a location
FreeQty(S, loc, lot) ==
    S.quant[loc][lot].quantity - S.quant[loc][lot].reserved_quantity

(***************************************************************************)
(* The ledger call Quant._update_reserved_quantity(product, location, qty, *)
(* lot_id=lot, strict=False).  A positive qty reserves what is free, up to *)
(* qty, and returns the amount reserved; a negative qty releases, and      *)
(* raises when more is released than is reserved.  "rejects" says for      *)
(* which lots the ledger fails a reservation and how: <<lot, "raise">>     *)
(* when it raises, <<lot, "zero">> when it returns that nothing was        *)
(* reserved.                                                               *)
(***************************************************************************)
_update_reserved_quantity(S, loc, lot, qty, rejects) ==
    LET q == S.quant[loc][lot]
    IN IF qty > 0
       THEN IF << lot, "raise" >> \in rejects
            THEN [S |-> S, reserved |-> 0, raised |-> TRUE]
            ELSE IF << lot, "zero" >> \in rejects
            THEN [S |-> S, reserved |-> 0, raised |-> FALSE]
            ELSE LET granted == Min(qty, Max(q.quantity - q.reserved_quantity, 0))
                 IN [S |-> SetQuant(S, loc, lot,
                              [q EXCEPT !.reserved_quantity = @ + granted]),
                     reserved |-> granted, raised |-> FALSE]
       ELSE IF -qty > q.reserved_quantity
            THEN [S |-> S, reserved |-> 0, raised |-> TRUE]
            ELSE [S |-> SetQuant(S, loc, lot,
                              [q EXCEPT !.reserved_quantity = @ + qty]),
                  reserved |-> qty, raised |-> FALSE]

(***************************************************************************)
(* StockQuant._get_whole_lot_available_quants(product, location).          *)
(***************************************************************************)
_get_whole_lot_available_quants(S, loc) ==
    LET available == {lot \in Lots : float_compare(FreeQty(S, loc, lot), 0) > 0}
        fifo == SortedSeq({in_date(lot) : lot \in available})
    IN [i \in 1..Len(fifo) |->
            LET lot == CHOOSE l \in available : in_date(l) = fifo[i]
            IN [lot_id |-> lot, available_qty |-> FreeQty(S, loc, lot)]]

(***************************************************************************)
(* The same readings over the stock.quant records themselves: a lot can    *)
(* have several records at a location (packages, owners), a record can be  *)
(* negative or keep a reservation with no quantity, and in_date can be     *)
(* empty.  A record is [id, lot_id, quantity, reserved_quantity, in_date]; *)
(* NoDate stands for an empty in_date.                                     *)
(***************************************************************************)
NoDate == 0

\* Quant._gather under the whole_lot strategy: the records in the order of
\* _get_removal_strategy_order, 'in_date ASC NULLS FIRST, id ASC'.
_gather(quants) ==
    LET idx == 1..Len(quants)
        before(i, j) ==
            \/ quants[i].in_date < quants[j].in_date
            \/ quants[i].in_date = quants[j].in_date
                    /\ quants[i].id < quants[j].id
    IN Then(CHOOSE f \in [idx -> idx] :
                \A i, j \in idx : i < j => before(f[i], f[j]),
            LAMBDA o : [k \in idx |-> quants[o[k]]])

\* Quant._gather(..., lot_id=lot): the records of one lot.
GatherLot(quants, lot) ==
    SelectSeq(_gather(quants), LAMBDA q : q.lot_id = lot)

RECURSIVE SumQuantity(_)
SumQuantity(quants) ==
    IF quants = <<>> THEN 0
    ELSE Head(quants).quantity + SumQuantity(Tail(quants))
RECURSIVE SumReserved(_)
SumReserved(quants) ==
    IF quants = <<>> THEN 0
    ELSE Head(quants).reserved_quantity + SumReserved(Tail(quants))

\* A reading that makes one entry of every record, without adding up the
\* records of a lot.
LotDataOf_PerRecord(gathered) ==
    [k \in 1..Len(gathered) |->
        [lot_id |-> gathered[k].lot_id,
         available_qty |-> gathered[k].quantity - gathered[k].reserved_quantity,
         in_date |-> gathered[k].in_date]]

\* _get_whole_lot_available_quants lines 41-54: one lot_data entry per lot,
\* in the order the lots are first met; the entry keeps the in_date of the
\* first record of the lot.
LotDataOf(gathered) ==
    LET lots == {gathered[k].lot_id : k \in 1..Len(gathered)}
        first == [lot \in lots |->
                    CHOOSE k \in 1..Len(gathered) :
                        /\ gathered[k].lot_id = lot
                        /\ \A j \in 1..(k - 1) : gathered[j].lot_id # lot]
        n == Cardinality(lots)
        entry(lot) ==
            LET of_lot == SelectSeq(gathered, LAMBDA q : q.lot_id = lot)
            IN [lot_id |-> lot,
                available_qty |-> SumQuantity(of_lot) - SumReserved(of_lot),
                in_date |-> gathered[first[lot]].in_date]
    IN Then(CHOOSE f \in [1..n -> lots] :
                \A i, j \in 1..n : i < j => first[f[i]] < first[f[j]],
            LAMBDA o : [k \in 1..n |-> entry(o[k])])

LotData(quants) == Then(_gather(quants), LotDataOf)

\* Line 62: available_lots.sort(key=lambda x: (x['in_date'] or '')).  The
\* key of an entry without in_date is the empty string, that of the others
\* a datetime: comparing the two raises TypeError.  The sort is stable.
SortByInDate(available_lots) ==
    LET idx == 1..Len(available_lots)
        mixed == \E i, j \in idx : /\ available_lots[i].in_date = NoDate
                                   /\ available_lots[j].in_date # NoDate
        before(i, j) ==
            \/ available_lots[i].in_date < available_lots[j].in_date
            \/ available_lots[i].in_date = available_lots[j].in_date /\ i < j
    IN IF mixed
       THEN [raised |-> TRUE, lots |-> <<>>]
       ELSE Then(CHOOSE f \in [idx -> idx] :
                    \A i, j \in idx : i < j => before(f[i], f[j]),
                 LAMBDA o : [raised |-> FALSE,
                             lots |-> [k \in idx |-> available_lots[o[k]]]])

\* StockQuant._get_whole_lot_available_quants (lines 30-63) on the records.
WholeLotAvailableQuants(quants) ==
    Then(Then(LotData(quants),
              LAMBDA lot_data :
                SelectSeq(lot_data,
                    LAMBDA d : float_compare(d.available_qty, 0) > 0)),
         SortByInDate)

(***************************************************************************)
(* stock.move                                                              *)
(***************************************************************************)
_should_use_whole_lot_strategy(S, m) == S.move[m].whole_lot

\* uom._compute_quantity(qty, to_unit, rounding_method='HALF-UP') between the
\* product's unit and the move's, which are the same unit: the quantity
\* rounded to the unit's rounding.
_compute_quantity(qty) == float_round(qty)

\* StockMove._get_reserved_qty: the quantity of the move's lines.
RECURSIVE ConvertedSum(_)
ConvertedSum(lines) ==
    IF lines = <<>> THEN 0
    ELSE _compute_quantity(Head(lines).quantity) + ConvertedSum(Tail(lines))

_get_reserved_qty(S, m) == ConvertedSum(S.move[m].move_line_ids)

\* StockMove._create_whole_lot_move_line.  free_at (the lot's free quantity
\* just before the reservation) and by (the routine that made the line) are
\* history fields: no operation reads them.
_create_whole_lot_move_line(S, m, lot, quantity, free_at, by) ==
    [S EXCEPT !.move[m].move_line_ids =
        Append(@, [lot_id |-> lot, quantity |-> _compute_quantity(quantity),
                   free_at |-> free_at, by |-> by])]

\* stock.move.line create() by the standard logic and by
\* _assign_whole_lots_to_backorder (stock_picking.py lines 272-301).
CreateMoveLine(S, m, lot, quantity, free_at, by) ==
    [S EXCEPT !.move[m].move_line_ids =
        Append(@, [lot_id |-> lot, quantity |-> quantity,
                   free_at |-> free_at, by |-> by])]

\* A state update that marks the move assigned as soon as anything was
\* reserved.
UpdateMoveState_AlwaysAssigned(S, m, total_reserved, total_demand) ==
    IF float_compare(total_reserved, 0) > 0 THEN SetState(S, m, "assigned")
    ELSE S

\* The state update after an attempt that reserved total_reserved
\* (_assign_whole_lots lines 171-180, _assign_whole_lots_from_origin 425-438).
UpdateMoveState(S, m, total_reserved, total_demand) ==
    IF float_compare(total_reserved, 0) > 0
    THEN IF float_compare(_get_reserved_qty(S, m), total_demand) >= 0
         THEN SetState(S, m, "assigned")
         ELSE IF S.move[m].state # "partially_available"
              THEN SetState(S, m, "partially_available")
              ELSE S
    ELSE S

\* A reservation loop that ends at the first lot the ledger fails.
RECURSIVE ReserveSelected_StopAtFailure(_, _, _, _, _)
ReserveSelected_StopAtFailure(S, m, selected, total_reserved, rejects) ==
    IF selected = <<>>
    THEN [S |-> S, total_reserved |-> total_reserved]
    ELSE LET lot == Head(selected).lot_id
             qty == Head(selected).available_qty
             loc == S.move[m].location_id
             r == _update_reserved_quantity(S, loc, lot, qty, rejects)
         IN IF r.raised \/ float_compare(r.reserved, 0) <= 0
            THEN [S |-> S, total_reserved |-> total_reserved]
            ELSE Then(_create_whole_lot_move_line(r.S, m, lot, r.reserved,
                            FreeQty(S, loc, lot), "_assign_whole_lots"),
                      LAMBDA T : ReserveSelected_StopAtFailure(T, m,
                                    Tail(selected),
                                    total_reserved + r.reserved, rejects))

\* A reservation loop that records the quantity it asked the ledger for,
\* whatever the ledger returned.
RECURSIVE ReserveSelected_RecordsRequested(_, _, _, _, _)
ReserveSelected_RecordsRequested(S, m, selected, total_reserved, rejects) ==
    IF selected = <<>>
    THEN [S |-> S, total_reserved |-> total_reserved]
    ELSE LET lot == Head(selected).lot_id
             qty == Head(selected).available_qty
             loc == S.move[m].location_id
             r == _update_reserved_quantity(S, loc, lot, qty, rejects)
         IN IF float_compare(qty, 0) <= 0 \/ r.raised
            THEN ReserveSelected_RecordsRequested(S, m, Tail(selected),
                                                  total_reserved, rejects)
            ELSE Then(_create_whole_lot_move_line(r.S, m, lot, qty,
                            FreeQty(S, loc, lot), "_assign_whole_lots"),
                      LAMBDA T : ReserveSelected_RecordsRequested(T, m,
                                    Tail(selected), total_reserved + qty,
                                    rejects))

\* _assign_whole_lots lines 135-169: reserve each selected lot in full.
RECURSIVE ReserveSelected(_, _, _, _, _)
ReserveSelected(S, m, selected, total_reserved, rejects) ==
    IF selected = <<>>
    THEN [S |-> S, total_reserved |-> total_reserved]
    ELSE LET lot == Head(selected).lot_id
             qty == Head(selected).available_qty
             loc == S.move[m].location_id
             r == _update_reserved_quantity(S, loc, lot, qty, rejects)
         IN IF float_compare(qty, 0) <= 0 \/ r.raised
            THEN ReserveSelected(S, m, Tail(selected), total_reserved, rejects)
            ELSE IF float_compare(r.reserved, 0) > 0
                 THEN Then(_create_whole_lot_move_line(r.S, m, lot, r.reserved,
                                FreeQty(S, loc, lot), "_assign_whole_lots"),
                           LAMBDA T : ReserveSelected(T, m, Tail(selected),
                                        total_reserved + r.reserved, rejects))
                 ELSE Then(r.S, LAMBDA T : ReserveSelected(T, m, Tail(selected),
                                              total_reserved, rejects))

\* An allocation that starts over: it gives back to the ledger what the
\* move's lines hold, drops the lines, and selects for the whole demand.
RECURSIVE GiveBack(_, _, _)
GiveBack(S, loc, lines) ==
    IF lines = <<>> THEN S
    ELSE Then(_update_reserved_quantity(S, loc, Head(lines).lot_id,
                                        -Head(lines).quantity, {}).S,
              LAMBDA T : GiveBack(T, loc, Tail(lines)))
AssignWholeLotsMove_StartsOver(S, m, rejects) ==
    IF S.move[m].state \notin Actionable
    THEN S
    ELSE LET total_demand == _compute_quantity(S.move[m].product_uom_qty)
             S0 == [GiveBack(S, S.move[m].location_id, S.move[m].move_line_ids)
                        EXCEPT !.move[m].move_line_ids = <<>>]
             selected ==
                _whole_lot_select_lots(
                    _get_whole_lot_available_quants(S0, S.move[m].location_id),
                    total_demand)
         IN IF selected = <<>>
            THEN S0
            ELSE Then(ReserveSelected(S0, m, selected, 0, rejects),
                      LAMBDA r : UpdateMoveState(r.S, m, r.total_reserved,
                                                 total_demand))

\* StockMove._assign_whole_lots, one move of the loop (lines 95-189).
AssignWholeLotsMove(S, m, rejects) ==
    IF S.move[m].state \notin Actionable
    THEN S
    ELSE LET total_demand == _compute_quantity(S.move[m].product_uom_qty)
             need == total_demand - _get_reserved_qty(S, m)
             available_lots ==
                _get_whole_lot_available_quants(S, S.move[m].location_id)
             selected == _whole_lot_select_lots(available_lots, need)
         IN IF float_is_zero(need) \/ float_compare(need, 0) <= 0
            THEN S
            ELSE IF available_lots = <<>> \/ selected = <<>>
                 THEN S
                 ELSE Then(ReserveSelected(S, m, selected, 0, rejects),
                           LAMBDA r : UpdateMoveState(r.S, m, r.total_reserved,
                                                      total_demand))

\* An allocation that reads the available lots once, before the first move,
\* and selects for every move of the recordset from that reading.
RECURSIVE AssignFromOneReading(_, _, _, _)
AssignFromOneReading(S0, S, moves, rejects) ==
    IF moves = <<>> THEN S
    ELSE LET m == Head(moves)
             total_demand == _compute_quantity(S.move[m].product_uom_qty)
             need == total_demand - _get_reserved_qty(S, m)
             selected ==
                _whole_lot_select_lots(
                    _get_whole_lot_available_quants(S0, S.move[m].location_id),
                    need)
             skip == \/ S.move[m].state \notin Actionable
                     \/ float_is_zero(need) \/ float_compare(need, 0) <= 0
                     \/ selected = <<>>
         IN Then(IF skip THEN S
                 ELSE Then(ReserveSelected(S, m, selected, 0, rejects),
                           LAMBDA r : UpdateMoveState(r.S, m, r.total_reserved,
                                                      total_demand)),
                 LAMBDA T : AssignFromOneReading(S0, T, Tail(moves), rejects))
_assign_whole_lots_OneReading(S, moves, rejects) ==
    AssignFromOneReading(S, S, moves, rejects)

\* StockMove._assign_whole_lots over a recordset.
RECURSIVE _assign_whole_lots(_, _, _)
_assign_whole_lots(S, moves, rejects) ==
    IF moves = <<>> THEN S
    ELSE Then(AssignWholeLotsMove(S, Head(moves), rejects),
              LAMBDA T : _assign_whole_lots(T, Tail(moves), rejects))

\* A collection of pairs that does not look at the origin move's state.
RECURSIVE OriginLotAssignments_AnyState(_, _)
OriginLotAssignments_AnyState(S, origins) ==
    IF origins = <<>> THEN <<>>
    ELSE LET orig_move == S.move[Head(origins)]
             kept == SelectSeq(orig_move.move_line_ids,
                        LAMBDA ml : float_compare(ml.quantity, 0) > 0)
         IN [i \in 1..Len(kept) |->
                [lot_id |-> kept[i].lot_id, qty |-> kept[i].quantity]]
            \o OriginLotAssignments_AnyState(S, Tail(origins))

\* _assign_whole_lots_from_origin lines 242-277: the (lot, qty) pairs of
\* the lines of the origin moves that are done.
RECURSIVE OriginLotAssignments(_, _)
OriginLotAssignments(S, origins) ==
    IF origins = <<>> THEN <<>>
    ELSE LET orig_move == S.move[Head(origins)]
             kept == SelectSeq(orig_move.move_line_ids,
                        LAMBDA ml : float_compare(ml.quantity, 0) > 0)
             pairs == [i \in 1..Len(kept) |->
                         [lot_id |-> kept[i].lot_id, qty |-> kept[i].quantity]]
         IN (IF orig_move.state = "done" THEN pairs ELSE <<>>)
            \o OriginLotAssignments(S, Tail(origins))

\* _assign_whole_lots_from_origin lines 332-416: reserve each propagated lot
\* for min(propagated quantity, free quantity).
RECURSIVE ReserveFromOrigin(_, _, _, _, _)
ReserveFromOrigin(S, m, lot_assignments, total_reserved, rejects) ==
    IF lot_assignments = <<>>
    THEN [S |-> S, total_reserved |-> total_reserved]
    ELSE LET lot == Head(lot_assignments).lot_id
             qty == Head(lot_assignments).qty
             loc == S.move[m].location_id
             available == FreeQty(S, loc, lot)
             reserve_qty == Min(qty, available)
             r == _update_reserved_quantity(S, loc, lot, reserve_qty, rejects)
             rest == Tail(lot_assignments)
         IN IF \/ float_compare(qty, 0) <= 0
               \/ float_compare(available, 0) <= 0
               \/ r.raised
            THEN ReserveFromOrigin(S, m, rest, total_reserved, rejects)
            ELSE IF float_compare(r.reserved, 0) > 0
                 THEN Then(_create_whole_lot_move_line(r.S, m, lot, r.reserved,
                                available, "_assign_whole_lots_from_origin"),
                           LAMBDA T : ReserveFromOrigin(T, m, rest,
                                        total_reserved + r.reserved, rejects))
                 ELSE Then(r.S, LAMBDA T : ReserveFromOrigin(T, m, rest,
                                              total_reserved, rejects))

\* A propagation that leaves the move alone when the origin moves give no
\* pair.
AssignFromOriginMove_NoFallback(S, m, rejects) ==
    IF S.move[m].state \notin Actionable
    THEN S
    ELSE LET total_demand == _compute_quantity(S.move[m].product_uom_qty)
             need == total_demand - _get_reserved_qty(S, m)
             lot_assignments ==
                OriginLotAssignments(S, MovesIn(S.move[m].move_orig_ids))
         IN IF float_is_zero(need) \/ float_compare(need, 0) <= 0
               \/ lot_assignments = <<>>
            THEN S
            ELSE Then(ReserveFromOrigin(S, m, lot_assignments, 0, rejects),
                      LAMBDA r : UpdateMoveState(r.S, m, r.total_reserved,
                                                 total_demand))

\* StockMove._assign_whole_lots_from_origin, one move of the loop (205-444).
AssignFromOriginMove(S, m, rejects) ==
    IF S.move[m].state \notin Actionable
    THEN S
    ELSE LET total_demand == _compute_quantity(S.move[m].product_uom_qty)
             need == total_demand - _get_reserved_qty(S, m)
             lot_assignments ==
                OriginLotAssignments(S, MovesIn(S.move[m].move_orig_ids))
         IN IF float_is_zero(need) \/ float_compare(need, 0) <= 0
            THEN S
            ELSE IF lot_assignments = <<>>
                 THEN _assign_whole_lots(S, << m >>, rejects)
                 ELSE Then(ReserveFromOrigin(S, m, lot_assignments, 0, rejects),
                           LAMBDA r : UpdateMoveState(r.S, m, r.total_reserved,
                                                      total_demand))

RECURSIVE _assign_whole_lots_from_origin(_, _, _)
_assign_whole_lots_from_origin(S, moves, rejects) ==
    IF moves = <<>> THEN S
    ELSE Then(AssignFromOriginMove(S, Head(moves), rejects),
              LAMBDA T : _assign_whole_lots_from_origin(T, Tail(moves), rejects))

(***************************************************************************)
(* super()._action_assign: the standard reservation of stock.move, which   *)
(* _action_assign hands the regular moves to.  It acts on the moves in an  *)
(* actionable state, walks the lots in FIFO order and takes from each what *)
(* is free, up to what is still needed: it splits lots.                    *)
(***************************************************************************)
RECURSIVE StandardReserve(_, _, _, _)
StandardReserve(S, m, lots, need) ==
    IF lots = <<>> \/ need <= 0 THEN S
    ELSE LET lot == Head(lots)
             loc == S.move[m].location_id
             take == Min(FreeQty(S, loc, lot), need)
             r == _update_reserved_quantity(S, loc, lot, take, {})
         IN IF take > 0
            THEN Then(CreateMoveLine(r.S, m, lot, take,
                                     FreeQty(S, loc, lot), "super"),
                      LAMBDA T : StandardReserve(T, m, Tail(lots), need - take))
            ELSE StandardReserve(S, m, Tail(lots), need)

RECURSIVE super_action_assign(_, _)
super_action_assign(S, moves) ==
    IF moves = <<>> THEN S
    ELSE LET m == Head(moves)
             demand == S.move[m].product_uom_qty
             need == demand - _get_reserved_qty(S, m)
             Settle(S1) ==
                LET reserved == _get_reserved_qty(S1, m)
                IN IF float_compare(reserved, demand) >= 0
                   THEN SetState(S1, m, "assigned")
                   ELSE IF float_compare(reserved, 0) > 0
                        THEN SetState(S1, m, "partially_available")
                        ELSE S1
         IN IF S.move[m].state \in Actionable
            THEN Then(Then(StandardReserve(S, m, SortedSeq(Lots), need), Settle),
                      LAMBDA T : super_action_assign(T, Tail(moves)))
            ELSE super_action_assign(S, Tail(moves))

(***************************************************************************)
(* StockMove._action_assign (lines 33-66).                                 *)
(***************************************************************************)
\* Lines 40-41: the moves left to the standard logic.
IsRegular(S, m) ==
    \/ S.move[m].state \notin Actionable
    \/ ~ _should_use_whole_lot_strategy(S, m)

\* An allocation that looks neither at the state of a move nor at what it
\* has reserved: it selects and reserves lots for the whole demand.
RECURSIVE AssignAnew(_, _, _)
AssignAnew(S, moves, rejects) ==
    IF moves = <<>> THEN S
    ELSE LET m == Head(moves)
             total_demand == _compute_quantity(S.move[m].product_uom_qty)
             selected ==
                _whole_lot_select_lots(
                    _get_whole_lot_available_quants(S, S.move[m].location_id),
                    total_demand)
             settle(r) == UpdateMoveState(r.S, m, r.total_reserved, total_demand)
         IN Then(Then(ReserveSelected(S, m, selected, 0, rejects), settle),
                 LAMBDA T : AssignAnew(T, Tail(moves), rejects))

\* An _action_assign that defers nothing.
IsDeferred_Never(S, m) == FALSE

\* Lines 45-46: a whole-lot move with origin moves is deferred.
IsDeferred(S, m) == S.move[m].move_orig_ids # {}

_action_assign(S, moves, rejects) ==
    LET regular_moves == SelectSeq(moves, LAMBDA m : IsRegular(S, m))
        whole_lot_moves ==
            SelectSeq(moves, LAMBDA m : ~ IsRegular(S, m) /\ ~ IsDeferred(S, m))
    IN Then(super_action_assign(S, regular_moves),
            LAMBDA T : _assign_whole_lots(T, whole_lot_moves, rejects))

(***************************************************************************)
(* stock.picking.  A picking holds one move and is named after it; its     *)
(* state follows the move's (a partially available move shows as assigned).*)
(***************************************************************************)
PickingState(S, p) ==
    IF S.move[p].state = "partially_available" THEN "assigned"
    ELSE S.move[p].state

\* The lines at the given positions, in order.
LinesAt(lines, positions) ==
    LET idx == SortedSeq(positions)
    IN [i \in 1..Len(idx) |-> lines[idx[i]]]

(***************************************************************************)
(* super().button_validate(): the standard validation.  The picked lines   *)
(* are executed (their quantity leaves the source location, with its       *)
(* reservation, and enters the destination); the move becomes done.  When  *)
(* demand is left, the move is split: the backorder move takes the rest of *)
(* the demand and the lines not picked, reservations included.  The        *)
(* destination moves are then assigned, and with auto (reservation at      *)
(* confirmation) so is the backorder.                                      *)
(***************************************************************************)
RECURSIVE ExecuteLines(_, _, _, _)
ExecuteLines(S, src, dst, lines) ==
    IF lines = <<>> THEN S
    ELSE LET ml == Head(lines)
             q == S.quant[src][ml.lot_id]
             Leave(T) ==
                SetQuant(T, src, ml.lot_id,
                    [quantity |-> q.quantity - ml.quantity,
                     reserved_quantity |->
                          Max(q.reserved_quantity - ml.quantity, 0)])
             Enter(T) ==
                IF dst \in StockLocations
                THEN SetQuant(T, dst, ml.lot_id,
                         [T.quant[dst][ml.lot_id]
                             EXCEPT !.quantity = @ + ml.quantity])
                ELSE T
         IN Then(Then(Leave(S), Enter),
                 LAMBDA T : ExecuteLines(T, src, dst, Tail(lines)))

RECURSIVE UnreserveLines(_, _, _)
UnreserveLines(S, loc, lines) ==
    IF lines = <<>> THEN S
    ELSE LET r == _update_reserved_quantity(S, loc, Head(lines).lot_id,
                                            -Head(lines).quantity, {})
         IN Then(r.S, LAMBDA T : UnreserveLines(T, loc, Tail(lines)))

RecomputedState(lines, demand) ==
    IF float_compare(SumLines(lines), demand) >= 0 THEN "assigned"
    ELSE IF float_compare(SumLines(lines), 0) > 0 THEN "partially_available"
         ELSE "confirmed"

super_button_validate(S, p, picked, auto, rejects) ==
    LET mv == S.move[p]
        done_lines == LinesAt(mv.move_line_ids, picked)
        rest_lines == LinesAt(mv.move_line_ids,
                              (1..Len(mv.move_line_ids)) \ picked)
        remainder == mv.product_uom_qty - SumLines(done_lines)
        has_bo == float_compare(remainder, 0) > 0
        split(S1) ==
            [S1 EXCEPT
                !.move[p] = [mv EXCEPT !.state = "done",
                                       !.move_line_ids = done_lines,
                                       !.product_uom_qty = SumLines(done_lines)],
                !.move["bo"] = [mv EXCEPT
                                  !.state = RecomputedState(rest_lines, remainder),
                                  !.product_uom_qty = remainder,
                                  !.move_line_ids = rest_lines,
                                  !.backorder_id = p],
                !.move["out"] = [@ EXCEPT !.move_orig_ids = @ \cup {"bo"}]]
        whole(S1) ==
            [UnreserveLines(S1, mv.location_id, rest_lines) EXCEPT
                !.move[p] = [mv EXCEPT !.state = "done",
                                       !.move_line_ids = done_lines]]
        done(S1) == IF has_bo THEN split(S1) ELSE whole(S1)
        assign_dests(S2) == _action_assign(S2, MovesIn(mv.move_dest_ids), rejects)
        assign_bo(S3) ==
            IF has_bo /\ auto THEN _action_assign(S3, << "bo" >>, rejects) ELSE S3
    IN Then(Then(Then(ExecuteLines(S, mv.location_id, mv.location_dest_id,
                                   done_lines),
                      done),
                 assign_dests),
            assign_bo)

(***************************************************************************)
(* StockPicking._propagate_whole_lots_to_next_step (lines 29-72).          *)
(***************************************************************************)
_propagate_whole_lots_to_next_step(S, p, rejects) ==
    LET next_moves ==
            IF S.move[p].state = "done" THEN S.move[p].move_dest_ids ELSE {}
        deferred_moves ==
            MovesIn({m \in next_moves :
                        /\ S.move[m].state \in Actionable
                        /\ _should_use_whole_lot_strategy(S, m)})
    IN IF deferred_moves = <<>> THEN S
       ELSE _action_assign(S, deferred_moves, rejects)

(***************************************************************************)
(* StockPicking._assign_whole_lots_to_backorder (lines 74-330).            *)
(***************************************************************************)
\* Lines 119-140: the lots the sale order line requires, from its three
\* sources.
AllSoLotIds == sol.x_lot_breakdown_json \cup sol.x_selected_lots \cup sol.lot_ids

\* Lines 145-151: the lots of the lines of every done move of the sale line.
AllDeliveredIds(S) ==
    UNION {LineLots(S.move[dm].move_line_ids) :
              dm \in {m \in MoveIds : /\ S.move[m].sale_line_id
                                      /\ S.move[m].state = "done"}}

\* A pending set that reads the live selection only.
PendingLotIds_LiveOnly(S) == sol.lot_ids \ AllDeliveredIds(S)

\* Line 154
PendingLotIds(S) == AllSoLotIds \ AllDeliveredIds(S)

\* Lines 181-197: release the reservation of each line, then unlink them.
RECURSIVE ReleaseLines(_, _, _)
ReleaseLines(S, loc, lines) ==
    IF lines = <<>> THEN S
    ELSE LET ml == Head(lines)
             r == _update_reserved_quantity(S, loc, ml.lot_id, -ml.quantity, {})
         IN Then(IF ml.quantity > 0 THEN r.S ELSE S,
                 LAMBDA T : ReleaseLines(T, loc, Tail(lines)))

\* An unlink of the lines that leaves their reservations on the ledger.
ClearMoveLines_NoRelease(S, m) == [S EXCEPT !.move[m].move_line_ids = <<>>]

\* A clearing step that neither releases nor unlinks.
ClearMoveLines_KeepsLines(S, m) == S

ClearMoveLines(S, m) ==
    Then(ReleaseLines(S, S.move[m].location_id, S.move[m].move_line_ids),
         LAMBDA T : [T EXCEPT !.move[m].move_line_ids = <<>>])

\* Lines 215-247: the quantity the new line carries; 0 stands for "skip".
BackorderReserveQty(q) ==
    LET lot_total_qty == q.quantity
        lot_reserved_qty == q.reserved_quantity
        lot_real_qty == IF q.quantity > 0 THEN q.quantity ELSE 0
    IN IF float_compare(lot_real_qty, 0) > 0 THEN lot_real_qty
       ELSE IF float_compare(lot_total_qty, 0) > 0 THEN lot_total_qty
            ELSE IF float_compare(lot_reserved_qty, 0) > 0 THEN lot_reserved_qty
                 ELSE 0

\* Lines 203-261 on the records of the location: what the loop works out
\* for one pending lot.  skipped: no line is created; reserve_qty: the
\* quantity of the line; requested: what the ledger is asked to reserve.
ForceAssignQtyOf(of_lot) ==
    LET lot_total_qty == SumQuantity(of_lot)
        lot_reserved_qty == SumReserved(of_lot)
        lot_available_qty == lot_total_qty - lot_reserved_qty
        lot_real_qty ==
            SumQuantity(SelectSeq(of_lot, LAMBDA q : q.quantity > 0))
        reserve_qty ==
            IF float_compare(lot_real_qty, 0) > 0 THEN lot_real_qty
            ELSE IF float_compare(lot_total_qty, 0) > 0 THEN lot_total_qty
            ELSE IF float_compare(lot_reserved_qty, 0) > 0
                 THEN lot_reserved_qty
                 ELSE 0
    IN [skipped |-> of_lot = <<>> \/ reserve_qty = 0,
        reserve_qty |-> reserve_qty,
        requested |-> IF float_compare(lot_available_qty, 0) > 0
                      THEN lot_available_qty ELSE 0,
        lot_reserved_qty |-> lot_reserved_qty,
        lot_available_qty |-> lot_available_qty]

ForceAssignQty(quants, lot) == Then(GatherLot(quants, lot), ForceAssignQtyOf)

\* Lines 203-309: force-assign each pending lot.
RECURSIVE ForceAssignPending(_, _, _, _, _)
ForceAssignPending(S, m, pending_lots, total_reserved, rejects) ==
    IF pending_lots = <<>>
    THEN [S |-> S, total_reserved |-> total_reserved]
    ELSE LET lot == Head(pending_lots)
             loc == S.move[m].location_id
             q == S.quant[loc][lot]
             lot_available_qty == q.quantity - q.reserved_quantity
             reserve_qty == BackorderReserveQty(q)
             r == _update_reserved_quantity(S, loc, lot, lot_available_qty,
                                            rejects)
             reserves == float_compare(lot_available_qty, 0) > 0
             rest == Tail(pending_lots)
         IN IF reserve_qty = 0 \/ (reserves /\ r.raised)
            THEN ForceAssignPending(S, m, rest, total_reserved, rejects)
            ELSE Then(CreateMoveLine(IF reserves THEN r.S ELSE S, m, lot,
                            _compute_quantity(reserve_qty), lot_available_qty,
                            "_assign_whole_lots_to_backorder"),
                      LAMBDA T : ForceAssignPending(T, m, rest,
                                    total_reserved + reserve_qty, rejects))

\* A reconciliation that releases and re-reserves even when the move's lines
\* already name the pending lots.
ReconcileBackorderMove_NoSkip(S, m, rejects) ==
    LET pending_lot_ids == PendingLotIds(S)
        total_demand == _compute_quantity(S.move[m].product_uom_qty)
        force_assign(T) ==
            ForceAssignPending(T, m, SortedSeq(pending_lot_ids), 0, rejects)
        update_state(r) ==
            IF float_compare(r.total_reserved, 0) > 0
            THEN IF float_compare(r.total_reserved, total_demand) >= 0
                 THEN SetState(r.S, m, "assigned")
                 ELSE SetState(r.S, m, "partially_available")
            ELSE r.S
    IN IF \/ S.move[m].state \notin (Actionable \cup {"assigned"})
          \/ ~ _should_use_whole_lot_strategy(S, m)
          \/ ~ S.move[m].sale_line_id
          \/ AllSoLotIds = {}
          \/ pending_lot_ids = {}
       THEN S
       ELSE Then(Then(ClearMoveLines(S, m), force_assign), update_state)

\* Lines 103-330: one move of a backorder picking.
ReconcileBackorderMove(S, m, rejects) ==
    LET pending_lot_ids == PendingLotIds(S)
        existing_lot_ids == LineLots(S.move[m].move_line_ids)
        total_demand == _compute_quantity(S.move[m].product_uom_qty)
        force_assign(T) ==
            ForceAssignPending(T, m, SortedSeq(pending_lot_ids), 0, rejects)
        update_state(r) ==
            IF float_compare(r.total_reserved, 0) > 0
            THEN IF float_compare(r.total_reserved, total_demand) >= 0
                 THEN SetState(r.S, m, "assigned")
                 ELSE SetState(r.S, m, "partially_available")
            ELSE r.S
    IN IF \/ S.move[m].state \notin (Actionable \cup {"assigned"})
          \/ ~ _should_use_whole_lot_strategy(S, m)
          \/ ~ S.move[m].sale_line_id
          \/ AllSoLotIds = {}
          \/ pending_lot_ids = {}
          \/ existing_lot_ids = pending_lot_ids
       THEN S
       ELSE Then(Then(ClearMoveLines(S, m), force_assign), update_state)

RECURSIVE ReconcileBackorderMoves(_, _, _)
ReconcileBackorderMoves(S, moves, rejects) ==
    IF moves = <<>> THEN S
    ELSE Then(ReconcileBackorderMove(S, Head(moves), rejects),
              LAMBDA T : ReconcileBackorderMoves(T, Tail(moves), rejects))

_assign_whole_lots_to_backorder(S, p, rejects) ==
    LET backorder_pickings ==
            {b \in MoveIds :
                /\ S.move[b].backorder_id = p
                /\ PickingState(S, b) \in {"confirmed", "waiting", "assigned"}}
    IN ReconcileBackorderMoves(S, MovesIn(backorder_pickings), rejects)

(***************************************************************************)
(* StockPicking.button_validate (lines 13-27).                             *)
(***************************************************************************)
\* The state when _assign_whole_lots_to_backorder is called (line 25).
BeforeBackorderStep(S, p, picked, auto, rejects) ==
    Then(super_button_validate(S, p, picked, auto, rejects),
         LAMBDA S1 : IF PickingState(S1, p) # "done" THEN S1
                     ELSE _propagate_whole_lots_to_next_step(S1, p, rejects))

button_validate(S, p, picked, auto, rejects) ==
    Then(BeforeBackorderStep(S, p, picked, auto, rejects),
         LAMBDA S2 : IF PickingState(S2, p) # "done" THEN S2
                     ELSE _assign_whole_lots_to_backorder(S2, p, rejects))

(***************************************************************************)
(* The warehouse as a state machine.                                       *)
(***************************************************************************)
Cur == [quant |-> quant, move |-> move]

\* Nothing read from the records yet.
NoAvailable == [raised |-> FALSE, lots |-> <<>>]
NoForce == [skipped |-> TRUE, reserve_qty |-> 0, requested |-> 0,
            lot_reserved_qty |-> 0, lot_available_qty |-> 0]

\* No stepwise run of _assign_whole_lots is under way.  selected is what is
\* left of the selection to reserve, read the selection as it was made.
IdlePass == [pc |-> "idle", selected |-> <<>>, read |-> <<>>,
             total_reserved |-> 0, total_demand |-> 0]
NoPasses == [m \in MoveIds |-> IdlePass]

\* op: the operation, the recordset it ran on, for button_validate the lines
\* picked, whether the backorder was assigned at once, and the lots on the
\* backorder's lines when _assign_whole_lots_to_backorder started; before is
\* the state and the reserved quantity each move of the recordset had when
\* the operation started; rejects is what the ledger failed during it.
Op(name, moves, picked, auto, bo_before, rejects) ==
    [name |-> name, moves |-> moves, picked |-> picked, auto |-> auto,
     bo_before |-> bo_before, rejects |-> rejects,
     before |-> [i \in 1..Len(moves) |->
                    [state |-> move[moves[i]].state,
                     reserved |-> _get_reserved_qty(Cur, moves[i])]]]

NoOp == Op("init", <<>>, {}, FALSE, {}, {})

NewMove(state, demand, src, dst, origs, dests, sale, whole_lot) ==
    [state |-> state, product_uom_qty |-> demand,
     location_id |-> src, location_dest_id |-> dst,
     move_orig_ids |-> origs, move_dest_ids |-> dests,
     sale_line_id |-> sale, whole_lot |-> whole_lot,
     backorder_id |-> "none", move_line_ids |-> <<>>]

\* Quantities in the warehouse are multiples of the rounding of the unit of
\* measure.
\* What the surrounding process has set up: stock received into Stock, a
\* lot of another order waiting in Output, the confirmed two-step delivery
\* of the sale line, and the move of another order (whole-lot or regular).
StockQtys(lot) ==
    IF lot = 1 THEN {6, 10} ELSE IF lot \in {2, NumLots} THEN {10} ELSE {0, 10}
OutputQtys == {0, 10}
PickDemands == {8, 20, 26}
OtherMoves ==
    { NewMove("none", 0, "Stock", "Customer", {}, {}, FALSE, TRUE),
      NewMove("confirmed", 10, "Stock", "Customer", {}, {}, FALSE, TRUE),
      NewMove("confirmed", 4, "Stock", "Customer", {}, {}, FALSE, FALSE) }
SaleLine(breakdown, selected, lot_ids) ==
    [x_lot_breakdown_json |-> breakdown, x_selected_lots |-> selected,
     lot_ids |-> lot_ids]
SaleLines ==
    { SaleLine({}, {}, {}),
      SaleLine({}, {}, {1, 2}),
      SaleLine({2}, {3}, {NumLots}) }

Init ==
    /\ \E sq \in [Lots -> {0, 6, 10}], oq \in OutputQtys :
          /\ \A lot \in Lots : sq[lot] \in StockQtys(lot)
          /\ quant = [loc \in StockLocations |-> [lot \in Lots |->
                      [quantity |-> IF loc = "Stock" THEN sq[lot]
                                    ELSE IF lot = NumLots THEN oq ELSE 0,
                       reserved_quantity |-> 0]]]
    /\ \E d \in PickDemands, other \in OtherMoves :
          move = [m \in MoveIds |->
                    CASE m = "pick" ->
                            NewMove("confirmed", d, "Stock", "Output",
                                    {}, {"out"}, TRUE, TRUE)
                      [] m = "out" ->
                            NewMove("waiting", d, "Output", "Customer",
                                    {"pick"}, {}, TRUE, TRUE)
                      [] m = "other" -> other
                      [] m = "bo" ->
                            NewMove("none", 0, "Stock", "Output",
                                    {}, {}, FALSE, TRUE)]
    /\ sol \in SaleLines
    /\ op = NoOp
    /\ sel_lots = <<>>
    /\ sel_need = 0
    /\ sel_result = <<>>
    /\ sel_pc = "idle"
    /\ g_quants = <<>>
    /\ g_lot = 0
    /\ g_available = NoAvailable
    /\ g_force = NoForce
    /\ g_pc = "idle"
    /\ pass = NoPasses

\* An empty warehouse.
NoQuants ==
    [loc \in StockLocations |-> [lot \in Lots |->
        [quantity |-> 0, reserved_quantity |-> 0]]]
NoMoves ==
    [m \in MoveIds |-> NewMove("none", 0, "Stock", "Output", {}, {}, FALSE, TRUE)]

Existing == {m \in MoveIds : move[m].state # "none"}

\* The recordsets _action_assign is called on: one move, or two moves still
\* to be assigned out of the same location, in either order.
Batches ==
    {<< m >> : m \in Existing}
    \cup {b \in {<< m1, m2 >> : m1 \in Existing, m2 \in Existing} :
            /\ b[1] # b[2]
            /\ move[b[1]].state \in Actionable
            /\ move[b[2]].state \in Actionable
            /\ move[b[1]].location_id = move[b[2]].location_id}

\* allocate: moves._action_assign()
ActionAssign(moves, rejects) ==
    /\ \E S \in {_action_assign(Cur, moves, rejects)} :
            quant' = S.quant /\ move' = S.move
    /\ op' = Op("_action_assign", moves, {}, FALSE, {}, rejects)
    /\ UNCHANGED <<sol, sel_vars, g_vars, pass>>

\* moves._assign_whole_lots_from_origin()
AssignFromOrigin(moves, rejects) ==
    /\ \E S \in {_assign_whole_lots_from_origin(Cur, moves, rejects)} :
            quant' = S.quant /\ move' = S.move
    /\ op' = Op("_assign_whole_lots_from_origin", moves, {}, FALSE, {}, rejects)
    /\ UNCHANGED <<sol, sel_vars, g_vars, pass>>

\* picking.button_validate() on the PICK picking, with the lines picked
ButtonValidate(picked, auto, rejects) ==
    /\ move["pick"].state \in {"assigned", "partially_available"}
    /\ picked # {}
    /\ picked \subseteq 1..Len(move["pick"].move_line_ids)
    /\ \E S \in {button_validate(Cur, "pick", picked, auto, rejects)} :
            quant' = S.quant /\ move' = S.move
    /\ op' = Op("button_validate", << "pick" >>, picked, auto,
                 LineLots(BeforeBackorderStep(Cur, "pick", picked, auto,
                                              rejects).move["bo"].move_line_ids),
                 rejects)
    /\ UNCHANGED <<sol, sel_vars, g_vars, pass>>

\* The moves that have origin moves: the ones propagation is for.
WithOrigin == {m \in Existing : move[m].move_orig_ids # {}}

(***************************************************************************)
(* The selector as a state machine: the arguments are drawn at the call,   *)
(* the result is set at the return.                                        *)
(***************************************************************************)
\* The lists the aggregator can hand over: distinct lots, each with a free
\* quantity that float_compare finds above zero.
EntryLists ==
    UNION {
        {[i \in 1..n |-> [lot_id |-> i, available_qty |-> q[i]]] :
            q \in [1..n -> 1..MaxQty]}
        : n \in 0..MaxEntries}

SelInit ==
    /\ sel_lots \in EntryLists
    /\ sel_need \in 1..MaxNeed
    /\ sel_result = <<>>
    /\ sel_pc = "call"
    /\ quant = NoQuants
    /\ move = NoMoves
    /\ sol = SaleLine({}, {}, {})
    /\ op = NoOp
    /\ g_quants = <<>>
    /\ g_lot = 0
    /\ g_available = NoAvailable
    /\ g_force = NoForce
    /\ g_pc = "idle"
    /\ pass = NoPasses

SelectLots ==
    /\ sel_pc = "call"
    /\ sel_result' = _whole_lot_select_lots(sel_lots, sel_need)
    /\ sel_pc' = "return"
    /\ UNCHANGED <<sel_lots, sel_need, sys_vars, g_vars, pass>>

SpecSelect == SelInit /\ [][SelectLots]_vars

(***************************************************************************)
(* The readings of the stock.quant records as a state machine: the records *)
(* are drawn, then the aggregator or the force-assign loop reads them.     *)
(***************************************************************************)
QuantLots == {1, 2}
QuantShapes == {<< 10, 6 >>, << 0, 6 >>, << -4, 0 >>}
InDates == {NoDate, 1, 2}

\* The records are numbered in the order they were created.
QuantsInit ==
    /\ \E n \in 0..MaxQuants :
        \E l \in [1..n -> QuantLots], sh \in [1..n -> QuantShapes],
           d \in [1..n -> InDates] :
            g_quants = [i \in 1..n |-> [id |-> i, lot_id |-> l[i],
                                        quantity |-> sh[i][1],
                                        reserved_quantity |-> sh[i][2],
                                        in_date |-> d[i]]]
    /\ g_lot = 0
    /\ g_available = NoAvailable
    /\ g_force = NoForce
    /\ g_pc = "call"
    /\ pass = NoPasses
    /\ quant = NoQuants
    /\ move = NoMoves
    /\ sol = SaleLine({}, {}, {})
    /\ op = NoOp
    /\ sel_lots = <<>>
    /\ sel_need = 0
    /\ sel_result = <<>>
    /\ sel_pc = "idle"

GetAvailableQuants ==
    /\ g_pc = "call"
    /\ g_available' = WholeLotAvailableQuants(g_quants)
    /\ g_pc' = "_get_whole_lot_available_quants"
    /\ UNCHANGED <<g_quants, g_lot, g_force, sys_vars, sel_vars, pass>>

ForceAssignLot(lot) ==
    /\ g_pc = "call"
    /\ g_lot' = lot
    /\ g_force' = ForceAssignQty(g_quants, lot)
    /\ g_pc' = "_assign_whole_lots_to_backorder"
    /\ UNCHANGED <<g_quants, g_available, sys_vars, sel_vars, pass>>

NextQuants ==
    \/ GetAvailableQuants
    \/ \E lot \in QuantLots : ForceAssignLot(lot)

SpecQuants == QuantsInit /\ [][NextQuants]_vars

(***************************************************************************)
(* The warehouse specification: the ledger grants every reservation        *)
(* (access to a location is serialized, no request is rejected).           *)
(***************************************************************************)
\* The operations the installed module runs: reservation of moves and
\* validation of the PICK picking.
Next ==
    \/ \E moves \in Batches : ActionAssign(moves, {})
    \/ \E picked \in SUBSET (1..NumLots), auto \in BOOLEAN :
            ButtonValidate(picked, auto, {})

Spec == Init /\ [][Next]_vars

\* The same warehouse where _assign_whole_lots_from_origin, which no code of
\* the module calls, is also run on a move that has origin moves.
NextOrigin ==
    \/ \E moves \in Batches : ActionAssign(moves, {})
    \/ \E picked \in SUBSET (1..NumLots), auto \in BOOLEAN :
            ButtonValidate(picked, auto, {})
    \/ \E m \in WithOrigin : AssignFromOrigin(<< m >>, {})

SpecOrigin == Init /\ [][NextOrigin]_vars

\* picking._assign_whole_lots_to_backorder() called once more on the PICK
\* picking after button_validate has made it done (line 21).
AssignToBackorder ==
    /\ move["pick"].state = "done"
    /\ \E S \in {_assign_whole_lots_to_backorder(Cur, "pick", {})} :
            quant' = S.quant /\ move' = S.move
    /\ op' = Op("_assign_whole_lots_to_backorder", << "pick" >>, {}, FALSE,
                 LineLots(move["bo"].move_line_ids), {})
    /\ UNCHANGED <<sol, sel_vars, g_vars, pass>>

\* The warehouse where the reconciliation can be run again.
NextRerun ==
    \/ \E moves \in Batches : ActionAssign(moves, {})
    \/ \E picked \in SUBSET (1..NumLots), auto \in BOOLEAN :
            ButtonValidate(picked, auto, {})
    \/ AssignToBackorder

SpecRerun == Init /\ [][NextRerun]_vars

(***************************************************************************)
(* _assign_whole_lots run step by step for two moves that take from Stock, *)
(* so that the reading of one (lines 113-133) can come before the ledger   *)
(* calls of the other (lines 135-169), and with reservations made on the   *)
(* ledger from outside the module.  When more is asked than is free the    *)
(* ledger grants what is free or raises, depending on its version.         *)
(***************************************************************************)
Passes == {"pick", "other"}
PassDemands == {10, 20}
ExternalQtys == {4, 10}
ExternalLots == {2}

InitInterleave ==
    /\ \E q1 \in StockQtys(1) :
          quant = [loc \in StockLocations |-> [lot \in Lots |->
                      [quantity |-> IF loc # "Stock" THEN 0
                                    ELSE IF lot = 1 THEN q1 ELSE 10,
                       reserved_quantity |-> 0]]]
    /\ \E d \in PassDemands, d2 \in PassDemands :
          move = [m \in MoveIds |->
                    CASE m = "pick" ->
                            NewMove("confirmed", d, "Stock", "Output",
                                    {}, {"out"}, TRUE, TRUE)
                      [] m = "out" ->
                            NewMove("waiting", d, "Output", "Customer",
                                    {"pick"}, {}, TRUE, TRUE)
                      [] m = "other" ->
                            NewMove("confirmed", d2, "Stock", "Customer",
                                    {}, {}, FALSE, TRUE)
                      [] m = "bo" ->
                            NewMove("none", 0, "Stock", "Output",
                                    {}, {}, FALSE, TRUE)]
    /\ sol = SaleLine({}, {}, {})
    /\ op = NoOp
    /\ sel_lots = <<>>
    /\ sel_need = 0
    /\ sel_result = <<>>
    /\ sel_pc = "idle"
    /\ g_quants = <<>>
    /\ g_lot = 0
    /\ g_available = NoAvailable
    /\ g_force = NoForce
    /\ g_pc = "idle"
    /\ pass = NoPasses

\* _assign_whole_lots lines 95-133 for move m: the need, the available lots
\* and the selection; the pass goes on only with a selection.
ReadAvailable(m) ==
    /\ pass[m].pc = "idle"
    /\ move[m].state \in Actionable
    /\ _should_use_whole_lot_strategy(Cur, m)
    /\ ~ IsDeferred(Cur, m)
    /\ \E total_demand \in {_compute_quantity(move[m].product_uom_qty)} :
       \E need \in {total_demand - _get_reserved_qty(Cur, m)} :
       \E selected \in {_whole_lot_select_lots(
                            _get_whole_lot_available_quants(Cur,
                                move[m].location_id), need)} :
            /\ ~ (float_is_zero(need) \/ float_compare(need, 0) <= 0)
            /\ selected # <<>>
            /\ pass' = [pass EXCEPT ![m] =
                            [pc |-> "reserve", selected |-> selected,
                             read |-> selected, total_reserved |-> 0,
                             total_demand |-> total_demand]]
    /\ op' = Op("_assign_whole_lots", << m >>, {}, FALSE, {}, {})
    /\ UNCHANGED <<quant, move, sol, sel_vars, g_vars>>

\* One turn of the loop of lines 136-169: the ledger call for the next
\* selected lot, with the quantity read earlier, and the line for what the
\* ledger returned.  raises: this ledger raises when asked for more than is
\* free.
ReserveNext(m, raises) ==
    /\ pass[m].pc = "reserve"
    /\ pass[m].selected # <<>>
    /\ \E lot_data \in {Head(pass[m].selected)} :
       \E rejects \in {IF /\ raises
                            /\ lot_data.available_qty
                                > FreeQty(Cur, move[m].location_id, lot_data.lot_id)
                         THEN {<< lot_data.lot_id, "raise" >>} ELSE {}} :
       \E r \in {ReserveSelected(Cur, m, << lot_data >>,
                                  pass[m].total_reserved, rejects)} :
            /\ quant' = r.S.quant
            /\ move' = r.S.move
            /\ pass' = [pass EXCEPT ![m].selected = Tail(@),
                                     ![m].total_reserved = r.total_reserved]
            /\ op' = Op("_assign_whole_lots", << m >>, {}, FALSE, {}, rejects)
    /\ UNCHANGED <<sol, sel_vars, g_vars>>

\* Lines 171-180: the state update that ends the pass.
FinishPass(m) ==
    /\ pass[m].pc = "reserve"
    /\ pass[m].selected = <<>>
    /\ \E S \in {UpdateMoveState(Cur, m, pass[m].total_reserved,
                                  pass[m].total_demand)} :
            quant' = S.quant /\ move' = S.move
    /\ pass' = [pass EXCEPT ![m].pc = "idle"]
    /\ op' = Op("_assign_whole_lots", << m >>, {}, FALSE, {}, {})
    /\ UNCHANGED <<sol, sel_vars, g_vars>>

\* A reservation of a lot at Stock made on the ledger from outside.
ExternalReserve(lot, qty) ==
    /\ FreeQty(Cur, "Stock", lot) > 0
    /\ \E r \in {_update_reserved_quantity(Cur, "Stock", lot, qty, {})} :
            quant' = r.S.quant
    /\ op' = Op("external", <<>>, {}, FALSE, {}, {})
    /\ UNCHANGED <<move, sol, sel_vars, g_vars, pass>>

NextInterleave ==
    \/ \E m \in Passes : ReadAvailable(m)
    \/ \E m \in Passes, raises \in BOOLEAN : ReserveNext(m, raises)
    \/ \E m \in Passes : FinishPass(m)
    \/ \E lot \in ExternalLots, qty \in ExternalQtys : ExternalReserve(lot, qty)

SpecInterleave == InitInterleave /\ [][NextInterleave]_vars

(***************************************************************************)
(* The warehouse where the ledger can fail the reservation of one lot      *)
(* during a call of _action_assign or _assign_whole_lots_from_origin: it   *)
(* raises, or it returns that nothing was reserved.                        *)
(***************************************************************************)
RejectSets ==
    {{<< lot, how >>} : lot \in {1, 2}, how \in {"raise", "zero"}}

\* Every lot but the first is in Stock in full, Output is empty, the sale
\* line names lots 1 and 2 and the delivery asks for at most two lots.
InitReject ==
    /\ \E q1 \in StockQtys(1) :
          quant = [loc \in StockLocations |-> [lot \in Lots |->
                      [quantity |-> IF loc # "Stock" THEN 0
                                    ELSE IF lot = 1 THEN q1 ELSE 10,
                       reserved_quantity |-> 0]]]
    /\ \E d \in PickDemands \ {26}, other \in OtherMoves :
          move = [m \in MoveIds |->
                    CASE m = "pick" ->
                            NewMove("confirmed", d, "Stock", "Output",
                                    {}, {"out"}, TRUE, TRUE)
                      [] m = "out" ->
                            NewMove("waiting", d, "Output", "Customer",
                                    {"pick"}, {}, TRUE, TRUE)
                      [] m = "other" -> other
                      [] m = "bo" ->
                            NewMove("none", 0, "Stock", "Output",
                                    {}, {}, FALSE, TRUE)]
    /\ sol = SaleLine({}, {}, {1, 2})
    /\ op = NoOp
    /\ sel_lots = <<>>
    /\ sel_need = 0
    /\ sel_result = <<>>
    /\ sel_pc = "idle"
    /\ g_quants = <<>>
    /\ g_lot = 0
    /\ g_available = NoAvailable
    /\ g_force = NoForce
    /\ g_pc = "idle"
    /\ pass = NoPasses

NextReject ==
    \/ \E moves \in Batches : ActionAssign(moves, {})
    \/ \E moves \in Batches, rejects \in RejectSets :
            ActionAssign(moves, rejects)
    \/ \E picked \in SUBSET (1..NumLots), auto \in BOOLEAN :
            ButtonValidate(picked, auto, {})
    \/ \E m \in WithOrigin, rejects \in RejectSets :
            AssignFromOrigin(<< m >>, rejects)

SpecReject == InitReject /\ [][NextReject]_vars

(***************************************************************************)
(* Properties of the selector, checked under SpecSelect.                   *)
(***************************************************************************)
Entry(i, q) == [lot_id |-> i, available_qty |-> q]

\* Entry i of the input is in the returned list.
InResult(i) == \E k \in 1..Len(sel_result) : sel_result[k] = sel_lots[i]

\* The need left when entry i is visited: the need minus the returned
\* entries that come before i.
RECURSIVE RemainingAt(_)
RemainingAt(i) ==
    IF i = 1 THEN sel_need
    ELSE RemainingAt(i - 1)
         - (IF InResult(i - 1) THEN sel_lots[i - 1].available_qty ELSE 0)

\* The returned list keeps the FIFO order of the input.
KeepsFifoOrder ==
    \A k1, k2 \in 1..Len(sel_result) :
        k1 < k2 => \E i1, i2 \in 1..Len(sel_lots) :
                      /\ i1 < i2
                      /\ sel_result[k1] = sel_lots[i1]
                      /\ sel_result[k2] = sel_lots[i2]

\* C8 Exact-match preference: if some entry's free quantity equals the demand
\* within rounding tolerance, the selector returns exactly one entry, the
\* first such entry in FIFO order.
C8_ExactMatchPreference ==
    sel_pc = "return" =>
        \A i \in 1..Len(sel_lots) :
            ( /\ float_compare(sel_lots[i].available_qty, sel_need) = 0
              /\ \A j \in 1..(i - 1) :
                    float_compare(sel_lots[j].available_qty, sel_need) # 0 )
            => sel_result = << sel_lots[i] >>

\* C8 witness: lots 8, 6, 10 and demand 10 returned the lot of quantity 10.
C8_Witness ==
    /\ sel_pc = "return"
    /\ sel_lots = << Entry(1, 8), Entry(2, 6), Entry(3, 10) >>
    /\ sel_need = 10
    /\ sel_result = << Entry(3, 10) >>

\* C9 FIFO greedy fallback: when no single entry equals the demand, an entry
\* is selected exactly when its full free quantity is at most the need that
\* remains when it is visited (and that need is not yet zero); the selected
\* entries keep FIFO order.
C9_FifoGreedyFallback ==
    ( /\ sel_pc = "return"
      /\ \A i \in 1..Len(sel_lots) :
            float_compare(sel_lots[i].available_qty, sel_need) # 0 )
    => /\ \A i \in 1..Len(sel_lots) :
            InResult(i) <=>
                /\ float_compare(sel_lots[i].available_qty, RemainingAt(i)) <= 0
                /\ ~ float_is_zero(RemainingAt(i))
       /\ \A k \in 1..Len(sel_result) :
            \E i \in 1..Len(sel_lots) : sel_result[k] = sel_lots[i]
       /\ KeepsFifoOrder

\* C9 witness: lots 8, 6, 10 in arrival order and demand 15 returned {8, 6}.
C9_Witness ==
    /\ sel_pc = "return"
    /\ sel_lots = << Entry(1, 8), Entry(2, 6), Entry(3, 10) >>
    /\ sel_need = 15
    /\ sel_result = << Entry(1, 8), Entry(2, 6) >>

\* C10 as stated (gap-fill example): lots 5, 9, 4 in arrival order and a
\* demand of 9 return the two entries of quantity 5 and 4.
C10_GapFillExample_Original ==
    ( /\ sel_pc = "return"
      /\ sel_lots = << Entry(1, 5), Entry(2, 9), Entry(3, 4) >>
      /\ sel_need = 9 )
    => sel_result = << Entry(1, 5), Entry(3, 4) >>

\* C10 amended: lots 5, 9, 4 in arrival order and a demand of 9 return the
\* single entry of quantity 9, which step 1 finds equal to the demand; the
\* greedy and gap-fill passes are not reached.
C10_GapFillExample_Amended ==
    ( /\ sel_pc = "return"
      /\ sel_lots = << Entry(1, 5), Entry(2, 9), Entry(3, 4) >>
      /\ sel_need = 9 )
    => sel_result = << Entry(2, 9) >>

\* C10 witness: the selector has returned for lots 5, 9, 4 and demand 9.
C10_Witness ==
    /\ sel_pc = "return"
    /\ sel_lots = << Entry(1, 5), Entry(2, 9), Entry(3, 4) >>
    /\ sel_need = 9
    /\ Len(sel_result) = 1

\* The sum of the free quantities of a list of entries.
RECURSIVE SumAvailable(_)
SumAvailable(entries) ==
    IF entries = <<>> THEN 0
    ELSE Head(entries).available_qty + SumAvailable(Tail(entries))

\* Every entry returned is an entry given, with its quantity, and no lot is
\* returned twice.
WholeEntriesOnly ==
    /\ \A k \in 1..Len(sel_result) :
            \E i \in 1..Len(sel_lots) : sel_result[k] = sel_lots[i]
    /\ \A k, l \in 1..Len(sel_result) :
            sel_result[k].lot_id = sel_result[l].lot_id => k = l

\* C11: the selection returned is made of entries given, whole and not
\* repeated, and its quantities add up to at most the need, within the
\* rounding tolerance.
C11_SelectionWithinDemand ==
    sel_pc = "return" =>
        /\ WholeEntriesOnly
        /\ float_compare(SumAvailable(sel_result), sel_need) <= 0

\* The part of C11 about the entries alone.
SelectionOfWholeEntries == sel_pc = "return" => WholeEntriesOnly

\* C11 for quantities and a need that are multiples of the rounding.
SelectionWithinDemand_Rounded ==
    (/\ sel_pc = "return"
     /\ sel_need % rounding = 0
     /\ \A i \in 1..Len(sel_lots) : sel_lots[i].available_qty % rounding = 0)
    => float_compare(SumAvailable(sel_result), sel_need) <= 0

(***************************************************************************)
(* Properties of the warehouse, checked under Spec.                        *)
(***************************************************************************)
EngineRoutines ==
    {"_assign_whole_lots", "_assign_whole_lots_from_origin",
     "_assign_whole_lots_to_backorder"}

LinesOf(m) == {move[m].move_line_ids[i] : i \in 1..Len(move[m].move_line_ids)}

TypeOK ==
    \A loc \in StockLocations, lot \in Lots :
        /\ quant[loc][lot].quantity >= 0
        /\ quant[loc][lot].reserved_quantity >= 0
        /\ quant[loc][lot].reserved_quantity <= quant[loc][lot].quantity


PropagationSplits ==
    \E m \in MoveIds : \E ml \in LinesOf(m) :
        ml.by = "_assign_whole_lots_from_origin" /\ ml.quantity < ml.free_at

\* Reached when reconciliation recorded more than the free quantity.
ReconciliationExceedsFree ==
    \E m \in MoveIds : \E ml \in LinesOf(m) :
        ml.by = "_assign_whole_lots_to_backorder" /\ ml.quantity > ml.free_at

\* C2: for every move the quantities of its lines add up to at most the
\* quantity the move asks for, within the rounding tolerance.
C2_NonOvershoot ==
    \A m \in Existing :
        float_compare(SumLines(move[m].move_line_ids),
                      move[m].product_uom_qty) <= 0


\* The lots the done PICK move delivered, and whether every origin move of
\* the OUT move is done.
DeliveredLots == LineLots(move["pick"].move_line_ids)
UpstreamAllDone == \A o \in move["out"].move_orig_ids : move[o].state = "done"

\* C3: once the PICK picking is validated, with every origin of the OUT move
\* done, the delivered lots present in Output and another lot Y in Output
\* too, the OUT move has a line for each delivered lot and none for Y.
C3_PropagationFidelity ==
    (/\ op.name = "button_validate"
     /\ move["pick"].state = "done"
     /\ UpstreamAllDone
     /\ \E Y \in Lots \ DeliveredLots : quant["Output"][Y].quantity > 0)
    => /\ \A X \in DeliveredLots :
            quant["Output"][X].quantity > 0
                => X \in LineLots(move["out"].move_line_ids)
       /\ LineLots(move["out"].move_line_ids) \subseteq DeliveredLots

\* C4: once the PICK picking is validated and every origin of the OUT move
\* is done, with the delivered lots present in Output, the OUT move has
\* lines and is partially_available or assigned.
C4_DeferredReexamined ==
    (/\ op.name = "button_validate"
     /\ UpstreamAllDone
     /\ DeliveredLots # {}
     /\ \A X \in DeliveredLots : quant["Output"][X].quantity > 0)
    => /\ move["out"].move_line_ids # <<>>
       /\ move["out"].state \in {"partially_available", "assigned"}

\* C5: _action_assign leaves unchanged every whole-lot move of its recordset
\* that has an origin move not done, and when the recordset holds only such
\* moves it leaves the quants unchanged.
HasUndoneOrigin(m) ==
    /\ move[m].whole_lot
    /\ \E o \in move[m].move_orig_ids : move[o].state # "done"

C5_Deferral ==
    [][op'.name = "_action_assign" =>
        LET moves == op'.moves
            held == {i \in 1..Len(moves) : HasUndoneOrigin(moves[i])}
        IN /\ \A i \in held : move'[moves[i]] = move[moves[i]]
           /\ held = 1..Len(moves) => quant' = quant]_vars

\* _action_assign ran on the OUT move alone while PICK was not done and a
\* free lot stood in Output; the OUT move is still waiting with no line.
C5_Witness ==
    /\ op.name = "_action_assign"
    /\ op.moves = << "out" >>
    /\ move["pick"].state # "done"
    /\ \E lot \in Lots : FreeQty(Cur, "Output", lot) > 0
    /\ move["out"].state = "waiting"
    /\ move["out"].move_line_ids = <<>>

\* C6: when button_validate reaches _assign_whole_lots_to_backorder with a
\* sale line whose required lots are partly delivered and partly pending
\* and a backorder move holding a line for a lot D the sale line does not
\* require, then afterwards the backorder has no line for D, the quantity
\* of that line is off D's reservation, and the backorder's lines name
\* exactly the pending lots that have quantity in the source location.
C6_BackorderCompleteness ==
    [][op'.name = "button_validate" =>
        \A S1 \in {BeforeBackorderStep(Cur, "pick", op'.picked, op'.auto, {})} :
        LET bo == S1.move["bo"]
            pending == PendingLotIds(S1)
            strays == LineLots(bo.move_line_ids) \ AllSoLotIds
            held(D) == SumLines(SelectSeq(bo.move_line_ids,
                                          LAMBDA ml : ml.lot_id = D))
        IN (/\ bo.state # "none"
            /\ AllSoLotIds \cap AllDeliveredIds(S1) # {}
            /\ pending # {}
            /\ strays # {})
           => /\ \A D \in strays :
                    /\ D \notin LineLots(move'["bo"].move_line_ids)
                    /\ quant'[bo.location_id][D].reserved_quantity =
                         S1.quant[bo.location_id][D].reserved_quantity - held(D)
              /\ LineLots(move'["bo"].move_line_ids) =
                    {l \in pending : S1.quant[bo.location_id][l].quantity > 0}
    ]_vars

\* The sale line requires three lots, one is delivered, the backorder held
\* a line for a fourth lot when reconciliation started and now holds the
\* two pending lots, the fourth lot's reservation being released.
C6_Witness ==
    /\ op.name = "button_validate"
    /\ Cardinality(AllSoLotIds) = 3
    /\ Cardinality(AllSoLotIds \cap AllDeliveredIds(Cur)) = 1
    /\ \E D \in op.bo_before \ AllSoLotIds :
            /\ D \notin LineLots(move["bo"].move_line_ids)
            /\ quant["Stock"][D].reserved_quantity = 0
    /\ LineLots(move["bo"].move_line_ids) = PendingLotIds(Cur)
    /\ Cardinality(PendingLotIds(Cur)) = 2

\* C7: a move of a sale line that requires lots has _assign_whole_lots
\* lines only for lots the sale line requires.
C7_EntitlementRestriction ==
    \A m \in Existing :
        (move[m].sale_line_id /\ AllSoLotIds # {})
        => \A ml \in LinesOf(m) :
                ml.by = "_assign_whole_lots" => ml.lot_id \in AllSoLotIds


\* What a move still needs: its demand less the quantity of its lines.
Need(m) ==
    _compute_quantity(move[m].product_uom_qty) - _get_reserved_qty(Cur, m)

\* C12: _action_assign leaves unchanged every whole-lot move of its
\* recordset that is assigned with nothing left to reserve, and when the
\* recordset holds only such moves it leaves the quants unchanged.
C12_Idempotence ==
    [][op'.name = "_action_assign" =>
        LET moves == op'.moves
            full == {i \in 1..Len(moves) :
                        /\ move[moves[i]].whole_lot
                        /\ move[moves[i]].state = "assigned"
                        /\ float_is_zero(Need(moves[i]))}
        IN /\ \A i \in full : move'[moves[i]] = move[moves[i]]
           /\ full = 1..Len(moves) => quant' = quant]_vars

\* _action_assign ran on the PICK move alone, which was assigned for its
\* whole demand, while another lot stood free in Stock.
C12_Witness ==
    /\ op.name = "_action_assign"
    /\ op.moves = << "pick" >>
    /\ op.before[1].state = "assigned"
    /\ op.before[1].reserved = move["pick"].product_uom_qty
    /\ move["pick"].state = "assigned"
    /\ float_is_zero(Need("pick"))
    /\ \E lot \in Lots : FreeQty(Cur, "Stock", lot) > 0


\* The state after the step, and the states the module writes.
After == [quant |-> quant', move |-> move']
WrittenStates == {"partially_available", "assigned"}

\* The state a move must have after an attempt that brought its lines from
\* reserved_before to reserved_after, given its state before.
StateAfterAttempt(state_before, reserved_before, reserved_after, demand) ==
    IF float_compare(reserved_after - reserved_before, 0) <= 0
    THEN state_before
    ELSE IF float_compare(reserved_after, demand) >= 0
         THEN "assigned"
         ELSE "partially_available"

\* C13: an _action_assign step leaves each whole-lot move without origin
\* that was confirmed, partially_available or waiting in the state it had
\* when nothing was reserved for it, in partially_available when something
\* was and its lines stay below its demand, in assigned when they reach it;
\* a reconciliation of the backorder does the same from its new lines; and
\* no state other than partially_available or assigned is written by
\* _action_assign, by the propagation or by the reconciliation.
C13_DemandStateMachine ==
    [][/\ op'.name = "_action_assign" =>
            /\ \A i \in 1..Len(op'.moves) :
                LET m == op'.moves[i]
                IN (/\ move[m].whole_lot
                    /\ move[m].move_orig_ids = {}
                    /\ move[m].state \in Actionable)
                   => move'[m].state =
                        StateAfterAttempt(move[m].state,
                            _get_reserved_qty(Cur, m),
                            _get_reserved_qty(After, m),
                            _compute_quantity(move[m].product_uom_qty))
            /\ \A m \in MoveIds :
                    move'[m].state # move[m].state
                        => move'[m].state \in WrittenStates
       /\ op'.name = "button_validate" =>
            \A S0 \in {super_button_validate(Cur, "pick", op'.picked,
                                             op'.auto, {})} :
            \A S1 \in {BeforeBackorderStep(Cur, "pick", op'.picked,
                                           op'.auto, {})} :
                /\ \A m \in MoveIds :
                        move'[m].state # S0.move[m].state
                            => move'[m].state \in WrittenStates
                /\ (/\ S1.move["bo"].state \in Actionable
                    /\ move'["bo"] # S1.move["bo"])
                   => move'["bo"].state =
                        StateAfterAttempt(S1.move["bo"].state, 0,
                            _get_reserved_qty(After, "bo"),
                            _compute_quantity(S1.move["bo"].product_uom_qty))
      ]_vars

\* _action_assign found the confirmed PICK move part of its demand: the move
\* is partially_available.
C13_Witness ==
    /\ op.name = "_action_assign"
    /\ op.moves = << "pick" >>
    /\ op.before[1].state = "confirmed"
    /\ move["pick"].state = "partially_available"
    /\ _get_reserved_qty(Cur, "pick") > 0
    /\ Need("pick") > 0

\* Reached when _action_assign reserved nothing and left the state as it
\* was, when it reserved the whole demand, and when the reconciliation
\* wrote the state of the backorder.
AttemptReservedNothing ==
    /\ op.name = "_action_assign"
    /\ op.moves = << "pick" >>
    /\ op.before[1].state = "partially_available"
    /\ op.before[1].reserved = _get_reserved_qty(Cur, "pick")
    /\ move["pick"].state = "partially_available"
AttemptReservedAll ==
    /\ op.name = "_action_assign"
    /\ op.moves = << "pick" >>
    /\ op.before[1].state = "confirmed"
    /\ move["pick"].state = "assigned"
ReconciliationWroteState ==
    /\ op.name = "button_validate"
    /\ move["bo"].state \in WrittenStates
    /\ \E ml \in LinesOf("bo") : ml.by = "_assign_whole_lots_to_backorder"


\* The lines a step appended to a move, the lots the ledger failed during
\* the step, and the lines of a sequence that carry a lot.
NewLines(m) ==
    SubSeq(move'[m].move_line_ids, Len(move[m].move_line_ids) + 1,
           Len(move'[m].move_line_ids))
KeepsLines(m) ==
    SubSeq(move'[m].move_line_ids, 1, Len(move[m].move_line_ids))
        = move[m].move_line_ids
Failed(rejects, lot) == \E how \in {"raise", "zero"} : << lot, how >> \in rejects
LinesFor(lines, lot) == {i \in 1..Len(lines) : lines[i].lot_id = lot}

\* C14: when the ledger raises or reserves nothing for one lot during
\* _assign_whole_lots or _assign_whole_lots_from_origin, the move gets no
\* line for that lot and the lot's quant is as it was; every other lot of
\* the selection is reserved in full and gets its line; the lines the move
\* had stay; and the call ends with the state the reserved quantity gives.
C14_PartialFailure ==
    [][/\ (/\ op'.name = "_action_assign"
           /\ op'.rejects # {}
           /\ \A i \in 1..Len(op'.moves) : move[op'.moves[i]].whole_lot
           /\ move[op'.moves[1]].move_orig_ids = {}
           /\ move[op'.moves[1]].state \in Actionable
           /\ float_compare(Need(op'.moves[1]), 0) > 0)
          => LET m == op'.moves[1]
                 loc == move[m].location_id
                 selected == _whole_lot_select_lots(
                                _get_whole_lot_available_quants(Cur, loc),
                                Need(m))
             IN /\ KeepsLines(m)
                /\ \A i \in 1..Len(selected) :
                     LET lot == selected[i].lot_id
                         qty == selected[i].available_qty
                     IN IF Failed(op'.rejects, lot)
                        THEN /\ LinesFor(NewLines(m), lot) = {}
                             /\ quant'[loc][lot] = quant[loc][lot]
                        ELSE /\ \E j \in LinesFor(NewLines(m), lot) :
                                    NewLines(m)[j].quantity = qty
                             /\ quant'[loc][lot].reserved_quantity
                                    = quant[loc][lot].reserved_quantity + qty
                /\ move'[m].state =
                        StateAfterAttempt(move[m].state,
                            _get_reserved_qty(Cur, m),
                            _get_reserved_qty(After, m),
                            _compute_quantity(move[m].product_uom_qty))
       /\ (/\ op'.name = "_assign_whole_lots_from_origin"
           /\ move[op'.moves[1]].state \in Actionable
           /\ float_compare(Need(op'.moves[1]), 0) > 0)
          => LET m == op'.moves[1]
                 loc == move[m].location_id
                 lot_assignments ==
                    OriginLotAssignments(Cur, MovesIn(move[m].move_orig_ids))
             IN /\ KeepsLines(m)
                /\ \A i \in 1..Len(lot_assignments) :
                     LET lot == lot_assignments[i].lot_id
                         qty == lot_assignments[i].qty
                         available == FreeQty(Cur, loc, lot)
                     IN IF Failed(op'.rejects, lot)
                        THEN /\ LinesFor(NewLines(m), lot) = {}
                             /\ quant'[loc][lot] = quant[loc][lot]
                        ELSE (/\ float_compare(qty, 0) > 0
                              /\ float_compare(available, 0) > 0)
                             => \E j \in LinesFor(NewLines(m), lot) :
                                    NewLines(m)[j].quantity
                                        = Min(qty, available)
                /\ move'[m].state =
                        StateAfterAttempt(move[m].state,
                            _get_reserved_qty(Cur, m),
                            _get_reserved_qty(After, m),
                            _compute_quantity(move[m].product_uom_qty))
      ]_vars

\* The ledger raised for lot 1, the first lot of the selection for a demand
\* of 20; lot 2, the next one, was still reserved.
C14_Witness ==
    /\ op.name = "_action_assign"
    /\ op.moves = << "pick" >>
    /\ op.rejects = {<< 1, "raise" >>}
    /\ op.before[1].reserved = 0
    /\ move["pick"].product_uom_qty = 20
    /\ quant["Stock"][1].reserved_quantity = 0
    /\ LinesFor(move["pick"].move_line_ids, 1) = {}
    /\ LinesFor(move["pick"].move_line_ids, 2) # {}
    /\ move["pick"].state = "partially_available"

\* The other cases: the reservation made before the failing lot stands; the
\* ledger reserved nothing without raising; the failure happened in
\* _assign_whole_lots_from_origin.
EarlierReservationStands ==
    /\ op.name = "_action_assign"
    /\ op.moves = << "pick" >>
    /\ op.rejects = {<< 2, "raise" >>}
    /\ op.before[1].reserved = 0
    /\ move["pick"].product_uom_qty = 20
    /\ quant["Stock"][2].reserved_quantity = 0
    /\ LinesFor(move["pick"].move_line_ids, 1) # {}
    /\ LinesFor(move["pick"].move_line_ids, 2) = {}
LedgerGrantedZero ==
    /\ op.name = "_action_assign"
    /\ op.moves = << "pick" >>
    /\ op.rejects = {<< 1, "zero" >>}
    /\ op.before[1].reserved = 0
    /\ move["pick"].product_uom_qty = 20
    /\ quant["Stock"][1].reserved_quantity = 0
    /\ LinesFor(move["pick"].move_line_ids, 2) # {}
FailureFromOrigin ==
    /\ op.name = "_assign_whole_lots_from_origin"
    /\ op.moves = << "out" >>
    /\ op.rejects = {<< 1, "raise" >>}
    /\ move["pick"].state = "done"
    /\ LinesFor(move["pick"].move_line_ids, 1) # {}
    /\ LinesFor(move["pick"].move_line_ids, 2) # {}
    /\ LinesFor(move["out"].move_line_ids, 1) = {}
    /\ \E i \in LinesFor(move["out"].move_line_ids, 2) :
            move["out"].move_line_ids[i].by = "_assign_whole_lots_from_origin"


\* The pending lots of which Stock holds something when the reconciliation
\* starts in state S.
AllocatablePending(S) ==
    {lot \in PendingLotIds(S) :
        float_compare(BackorderReserveQty(S.quant["Stock"][lot]), 0) > 0}

\* C15: when the sale line requires lots and, as the reconciliation of the
\* backorder starts, none of its pending lots can be allocated (all are
\* delivered, or Stock holds none of them), button_validate ends with no
\* line on the backorder move for a lot the sale line does not require.
C15_EntitlementExhaustion ==
    [][op'.name = "button_validate" =>
        \A S1 \in {BeforeBackorderStep(Cur, "pick", op'.picked,
                                       op'.auto, {})} :
            (/\ S1.move["bo"].state \in (Actionable \cup {"assigned"})
             /\ AllSoLotIds # {}
             /\ AllocatablePending(S1) = {})
            => LineLots(move'["bo"].move_line_ids) \subseteq AllSoLotIds
      ]_vars

\* Reached when Stock holds none of the pending lots and the reconciliation
\* took the line of a lot the sale line does not require off the backorder.
NonePhysicallyPresent ==
    /\ op.name = "button_validate"
    /\ move["bo"].state \in (Actionable \cup {"assigned"})
    /\ PendingLotIds(Cur) # {}
    /\ AllocatablePending(Cur) = {}
    /\ op.bo_before \ AllSoLotIds # {}
    /\ move["bo"].move_line_ids = <<>>


\* No lot at the source location of move m can be taken whole: each has
\* nothing free, or more free than the move still needs.
NoLotFits(m) ==
    \A lot \in Lots :
        LET free == FreeQty(Cur, move[m].location_id, lot)
        IN \/ float_compare(free, 0) <= 0
           \/ float_compare(free, Need(m)) > 0
NothingFree(m) ==
    \A lot \in Lots :
        float_compare(FreeQty(Cur, move[m].location_id, lot), 0) <= 0

\* C16: when _action_assign runs the whole-lot allocation for a move and no
\* lot at its location is free, or every free lot holds more than the move
\* still needs, the move keeps its state and its lines, and when the move is
\* the only one of the recordset no quant changes.
C16_NoViableSelection ==
    [][(/\ op'.name = "_action_assign"
        /\ \A i \in 1..Len(op'.moves) : move[op'.moves[i]].whole_lot
        /\ move[op'.moves[1]].move_orig_ids = {}
        /\ move[op'.moves[1]].state \in Actionable
        /\ float_compare(Need(op'.moves[1]), 0) > 0
        /\ NoLotFits(op'.moves[1]))
       => /\ move'[op'.moves[1]] = move[op'.moves[1]]
          /\ Len(op'.moves) = 1 => quant' = quant
      ]_vars

\* _action_assign ran on the confirmed PICK move while every free lot held
\* more than it needs: the move is still confirmed, without lines.
C16_Witness ==
    /\ op.name = "_action_assign"
    /\ op.moves = << "pick" >>
    /\ op.before[1].state = "confirmed"
    /\ move["pick"].state = "confirmed"
    /\ move["pick"].move_line_ids = <<>>
    /\ NoLotFits("pick")
    /\ ~ NothingFree("pick")

\* The other case: the aggregator had no lot to return.
AggregatorReturnedNone ==
    /\ op.name = "_action_assign"
    /\ op.moves = << "pick" >>
    /\ op.before[1].state \in Actionable
    /\ op.before[1].state = move["pick"].state
    /\ op.before[1].reserved = _get_reserved_qty(Cur, "pick")
    /\ float_compare(Need("pick"), 0) > 0
    /\ NothingFree("pick")


\* The quantity of lot at loc that the lines of the moves still to be
\* executed carry.
RECURSIVE SumLinesFor(_, _)
SumLinesFor(lines, lot) ==
    IF lines = <<>> THEN 0
    ELSE (IF Head(lines).lot_id = lot THEN Head(lines).quantity ELSE 0)
         + SumLinesFor(Tail(lines), lot)
RECURSIVE SumOverMoves(_, _, _)
SumOverMoves(moves, loc, lot) ==
    IF moves = <<>> THEN 0
    ELSE (IF /\ move[Head(moves)].state \notin {"none", "done"}
             /\ move[Head(moves)].location_id = loc
          THEN SumLinesFor(move[Head(moves)].move_line_ids, lot) ELSE 0)
         + SumOverMoves(Tail(moves), loc, lot)
RecordedQty(loc, lot) == SumOverMoves(MoveOrder, loc, lot)

\* C17: for every lot at every location, the lines of the moves that are
\* not done carry together no more than the quant's reserved quantity.
C17_NoDoubleCounting ==
    \A loc \in StockLocations, lot \in Lots :
        float_compare(RecordedQty(loc, lot),
                      quant[loc][lot].reserved_quantity) <= 0


\* The lots of the lines a step appended to a move.
NewLots(m) == LineLots(NewLines(m))

\* C18: when _action_assign runs the whole-lot allocation over two moves of
\* one location, no lot gets a new line on both; each move is served from
\* what the one before left (after the call no free lot fits what a move of
\* the recordset still needs); and every quant of the location has
\* 0 <= reserved <= quantity.
C18_SequentialBatch ==
    [][(/\ op'.name = "_action_assign"
        /\ Len(op'.moves) = 2
        /\ \A i \in 1..2 : /\ move[op'.moves[i]].whole_lot
                           /\ move[op'.moves[i]].move_orig_ids = {})
       => LET m1 == op'.moves[1]
              m2 == op'.moves[2]
              loc == move[m1].location_id
          IN /\ NewLots(m1) \cap NewLots(m2) = {}
             /\ \A lot \in NewLots(m2) :
                    /\ lot \notin LineLots(move'[m1].move_line_ids)
                    /\ float_compare(FreeQty(Cur, loc, lot), 0) > 0
             /\ \A i \in 1..2, lot \in Lots :
                    LET m == op'.moves[i]
                        need == _compute_quantity(move'[m].product_uom_qty)
                                    - _get_reserved_qty(After, m)
                        free == FreeQty(After, loc, lot)
                    IN \/ float_compare(need, 0) <= 0
                       \/ float_compare(free, 0) <= 0
                       \/ float_compare(free, need) > 0
             /\ \A lot \in Lots :
                    /\ 0 <= quant'[loc][lot].reserved_quantity
                    /\ quant'[loc][lot].reserved_quantity
                            <= quant'[loc][lot].quantity
      ]_vars

\* _action_assign ran on the whole-lot move of the other order and on the
\* PICK move, both without lines before: each has lines now, the first
\* lot in FIFO order went to the earlier move and the later move took
\* other lots.
C18_Witness ==
    /\ op.name = "_action_assign"
    /\ op.moves = << "other", "pick" >>
    /\ move["other"].whole_lot
    /\ op.before[1].reserved = 0
    /\ op.before[2].reserved = 0
    /\ LineLots(move["other"].move_line_ids) = {1}
    /\ LineLots(move["pick"].move_line_ids) # {}
    /\ LineLots(move["pick"].move_line_ids)
            \cap LineLots(move["other"].move_line_ids) = {}
    /\ quant["Stock"][1].reserved_quantity = quant["Stock"][1].quantity


\* The lots of the lines the reconciliation created on the backorder move
\* in this step.
ReconciledLots ==
    {ml.lot_id : ml \in {l \in {move'["bo"].move_line_ids[i] :
                                   i \in 1..Len(move'["bo"].move_line_ids)} :
                            l.by = "_assign_whole_lots_to_backorder"}}

\* C19: the lines button_validate's reconciliation creates on the backorder
\* move are for lots named by the recorded breakdown, the selection snapshot
\* or the live selection of the sale line and on no line of a done move of
\* the sale line; and when that set is not empty and differs from the lots
\* the backorder held, every lot of it that Stock holds gets a line.
C19_PendingSet ==
    [][op'.name = "button_validate" =>
        LET entitled ==
                sol.x_lot_breakdown_json \cup sol.x_selected_lots
                    \cup sol.lot_ids
            delivered ==
                {lot \in Lots :
                    \E m \in MoveIds :
                        /\ move'[m].sale_line_id
                        /\ move'[m].state = "done"
                        /\ lot \in LineLots(move'[m].move_line_ids)}
            pending == entitled \ delivered
        IN /\ ReconciledLots \subseteq pending
           /\ (/\ move'["bo"].state \notin {"none", "done"}
               /\ pending # {}
               /\ op'.bo_before # pending)
              => ReconciledLots =
                    {lot \in pending : quant'["Stock"][lot].quantity > 0}
      ]_vars

\* The sale line names lot 2 in its breakdown, lot 3 in its snapshot and
\* the last lot in its live selection; lot 2 is delivered and the backorder
\* got its lines for the two other lots from the reconciliation.
C19_Witness ==
    /\ op.name = "button_validate"
    /\ sol = SaleLine({2}, {3}, {NumLots})
    /\ move["pick"].state = "done"
    /\ 2 \in LineLots(move["pick"].move_line_ids)
    /\ LineLots(move["bo"].move_line_ids) = {3, NumLots}
    /\ op.bo_before # {3, NumLots}
    /\ \A ml \in LinesOf("bo") : ml.by = "_assign_whole_lots_to_backorder"


\* C20: when button_validate's reconciliation finds on the backorder move
\* lines whose lots are not the pending set, none of those lines is left,
\* and the reserved quantity of every lot in Stock ends at what it was less
\* the quantity of the backorder's former lines of that lot, plus what was
\* free after that release when the lot got a new line.
C20_ReleaseStep ==
    [][op'.name = "button_validate" =>
        \A S1 \in {BeforeBackorderStep(Cur, "pick", op'.picked,
                                       op'.auto, {})} :
            (/\ S1.move["bo"].state \notin {"none", "done"}
             /\ S1.move["bo"].move_line_ids # <<>>
             /\ PendingLotIds(S1) # {}
             /\ op'.bo_before # PendingLotIds(S1))
            => /\ \A i \in 1..Len(move'["bo"].move_line_ids) :
                    move'["bo"].move_line_ids[i].by
                        = "_assign_whole_lots_to_backorder"
               /\ \A lot \in Lots :
                    LET q == S1.quant["Stock"][lot]
                        released ==
                            SumLinesFor(S1.move["bo"].move_line_ids, lot)
                        after_release == q.reserved_quantity - released
                        free == q.quantity - after_release
                        granted == IF lot \in ReconciledLots /\ free > 0
                                   THEN free ELSE 0
                    IN /\ after_release >= 0
                       /\ quant'["Stock"][lot].reserved_quantity
                            = after_release + granted
      ]_vars

\* The sale line requires lots 1 and 2; the backorder held lines for lot 1
\* and for the last lot when the reconciliation started; the last lot's
\* reservation is released and the backorder holds lot 1 alone.
C20_Witness ==
    /\ op.name = "button_validate"
    /\ sol = SaleLine({}, {}, {1, 2})
    /\ op.bo_before = {1, NumLots}
    /\ PendingLotIds(Cur) = {1}
    /\ LineLots(move["bo"].move_line_ids) = {1}
    /\ quant["Stock"][NumLots].quantity > 0
    /\ quant["Stock"][NumLots].reserved_quantity = 0
    /\ quant["Stock"][1].reserved_quantity = quant["Stock"][1].quantity


\* The records of the lot the force-assign loop is at, and what they add up
\* to.
RecordsOfLot == SelectSeq(g_quants, LAMBDA q : q.lot_id = g_lot)
LotFree == SumQuantity(RecordsOfLot) - SumReserved(RecordsOfLot)

\* C21: when the records of a pending lot add up to a free quantity of zero
\* and a positive reserved quantity, the force-assign loop creates a line
\* whose quantity is that reserved quantity and asks the ledger for nothing.
C21_ZeroFreeReserved ==
    (/\ g_pc = "_assign_whole_lots_to_backorder"
     /\ float_compare(LotFree, 0) = 0
     /\ float_compare(SumReserved(RecordsOfLot), 0) > 0)
    => /\ ~ g_force.skipped
       /\ float_compare(g_force.reserve_qty, SumReserved(RecordsOfLot)) = 0
       /\ g_force.requested = 0

\* The same with no negative record of the lot: the line is created, for
\* the reserved quantity, without a ledger call.
ZeroFreeReserved_NoNegativeRecord ==
    (/\ g_pc = "_assign_whole_lots_to_backorder"
     /\ \A i \in 1..Len(RecordsOfLot) : RecordsOfLot[i].quantity >= 0
     /\ float_compare(LotFree, 0) = 0
     /\ float_compare(SumReserved(RecordsOfLot), 0) > 0)
    => /\ ~ g_force.skipped
       /\ float_compare(g_force.reserve_qty, SumReserved(RecordsOfLot)) = 0
       /\ g_force.requested = 0

\* In the warehouse, where a lot has one record per location: a pending lot
\* that is wholly reserved when the backorder's lines have been released
\* gets a line for its reserved quantity and its quant is not changed.
ZeroFreeReserved_Warehouse ==
    [][op'.name = "button_validate" =>
        \A S1 \in {BeforeBackorderStep(Cur, "pick", op'.picked,
                                       op'.auto, {})} :
            (/\ S1.move["bo"].state \notin {"none", "done"}
             /\ PendingLotIds(S1) # {}
             /\ op'.bo_before # PendingLotIds(S1))
            => \A S2 \in {ClearMoveLines(S1, "bo")} :
               \A lot \in PendingLotIds(S1) :
                    (/\ FreeQty(S2, "Stock", lot) = 0
                     /\ S2.quant["Stock"][lot].reserved_quantity > 0)
                    => /\ quant'["Stock"][lot] = S2.quant["Stock"][lot]
                       /\ \E i \in 1..Len(move'["bo"].move_line_ids) :
                            /\ move'["bo"].move_line_ids[i].lot_id = lot
                            /\ move'["bo"].move_line_ids[i].quantity
                                = S2.quant["Stock"][lot].reserved_quantity
      ]_vars

\* Reached in the warehouse: the backorder got a line for a pending lot that
\* was wholly reserved by the move of the other order.
WhollyReservedLotAssigned ==
    /\ op.name = "button_validate"
    /\ \E lot \in PendingLotIds(Cur) :
        /\ lot \in LineLots(move["bo"].move_line_ids)
        /\ lot \in LineLots(move["other"].move_line_ids)
        /\ move["other"].whole_lot
        /\ quant["Stock"][lot].reserved_quantity = quant["Stock"][lot].quantity


\* C22: when button_validate reaches the reconciliation with a backorder
\* move whose lines name exactly the pending lots, the reconciliation
\* changes nothing: quants and moves end as they were when it started.
C22_AlreadyCorrect ==
    [][op'.name = "button_validate" =>
        \A S1 \in {BeforeBackorderStep(Cur, "pick", op'.picked,
                                       op'.auto, {})} :
            (/\ S1.move["bo"].state \notin {"none", "done"}
             /\ op'.bo_before # {}
             /\ op'.bo_before =
                    (sol.x_lot_breakdown_json \cup sol.x_selected_lots
                        \cup sol.lot_ids)
                    \ LineLots(S1.move["pick"].move_line_ids))
            => /\ quant' = S1.quant
               /\ move' = S1.move
      ]_vars

\* The sale line requires lots 1 and 2, lot 1 is delivered and the
\* backorder holds the line of lot 2 that _assign_whole_lots had created
\* for the PICK move.
C22_Witness ==
    /\ op.name = "button_validate"
    /\ sol = SaleLine({}, {}, {1, 2})
    /\ move["pick"].state = "done"
    /\ LineLots(move["pick"].move_line_ids) = {1}
    /\ op.bo_before = {2}
    /\ Len(move["bo"].move_line_ids) = 1
    /\ move["bo"].move_line_ids[1].lot_id = 2
    /\ move["bo"].move_line_ids[1].by = "_assign_whole_lots"
    /\ quant["Stock"][2].reserved_quantity = move["bo"].move_line_ids[1].quantity

\* The lines of the done origin moves of m that carry a positive quantity,
\* each named by its move and its place among the move's lines.
PropagatedPairs(m) ==
    {p \in UNION {{<< o, i >> : i \in 1..Len(move[o].move_line_ids)} :
                    o \in move[m].move_orig_ids} :
        /\ move[p[1]].state = "done"
        /\ float_compare(move[p[1]].move_line_ids[p[2]].quantity, 0) > 0}
PairLine(p) == move[p[1]].move_line_ids[p[2]]
PairsFor(m, lot) == {p \in PropagatedPairs(m) : PairLine(p).lot_id = lot}

\* C23: when _assign_whole_lots_from_origin works on a move, every line it
\* makes as a propagation is for a lot of a line of a done origin move with
\* a positive quantity; when there are such lines, a lot that is not among
\* them or has nothing free at the move's location gets no line and its
\* quant stays, and a lot propagated once with something free gets one line
\* of min(propagated quantity, free quantity), which is what its reserved
\* quantity grows by.
C23_PropagatedPairs ==
    [][(/\ op'.name = "_assign_whole_lots_from_origin"
        /\ move[op'.moves[1]].state \in Actionable
        /\ float_compare(Need(op'.moves[1]), 0) > 0)
       => LET m == op'.moves[1]
              loc == move[m].location_id
          IN /\ KeepsLines(m)
             /\ \A j \in 1..Len(NewLines(m)) :
                    NewLines(m)[j].by = "_assign_whole_lots_from_origin"
                    => PairsFor(m, NewLines(m)[j].lot_id) # {}
             /\ PropagatedPairs(m) # {}
                => \A lot \in Lots :
                     LET available == FreeQty(Cur, loc, lot)
                     IN IF \/ PairsFor(m, lot) = {}
                           \/ float_compare(available, 0) <= 0
                        THEN /\ LinesFor(NewLines(m), lot) = {}
                             /\ quant'[loc][lot] = quant[loc][lot]
                        ELSE Cardinality(PairsFor(m, lot)) = 1
                             => \E p \in PairsFor(m, lot) :
                                 \E j \in 1..Len(NewLines(m)) :
                                   /\ LinesFor(NewLines(m), lot) = {j}
                                   /\ NewLines(m)[j].quantity
                                        = Min(PairLine(p).quantity, available)
                                   /\ NewLines(m)[j].by
                                        = "_assign_whole_lots_from_origin"
                                   /\ quant'[loc][lot].reserved_quantity
                                        = quant[loc][lot].reserved_quantity
                                          + NewLines(m)[j].quantity
      ]_vars

\* The PICK picking is done with a line for lot 1, and the propagation has
\* just given the OUT move, which had nothing reserved, a line for lot 1 of
\* the delivered quantity.
C23_Witness ==
    /\ op.name = "_assign_whole_lots_from_origin"
    /\ op.moves = << "out" >>
    /\ op.before[1].reserved = 0
    /\ move["pick"].state = "done"
    /\ \E i \in 1..Len(move["pick"].move_line_ids) :
        \E j \in 1..Len(move["out"].move_line_ids) :
            /\ move["pick"].move_line_ids[i].lot_id = 1
            /\ move["out"].move_line_ids[j].lot_id = 1
            /\ move["out"].move_line_ids[j].by = "_assign_whole_lots_from_origin"
            /\ move["out"].move_line_ids[j].quantity
                    = move["pick"].move_line_ids[i].quantity

\* Reached when the propagation ran for a move that still needed something
\* and every propagated lot had nothing free left: no line was added.
PropagationSkippedPair ==
    /\ op.name = "_assign_whole_lots_from_origin"
    /\ op.moves = << "out" >>
    /\ move["pick"].state = "done"
    /\ move["pick"].move_line_ids # <<>>
    /\ op.before[1].reserved > 0
    /\ op.before[1].reserved = _get_reserved_qty(Cur, "out")
    /\ op.before[1].state = "partially_available"

\* C24: when _assign_whole_lots_from_origin works on a move whose done
\* origin moves have no line with a positive quantity, the quants and the
\* moves end as _assign_whole_lots leaves them for that move: the lots the
\* selection picks among those free at the move's location, each with a
\* line made by _assign_whole_lots, and the state the reserved quantity
\* gives.
C24_PropagationMismatch ==
    [][(/\ op'.name = "_assign_whole_lots_from_origin"
        /\ move[op'.moves[1]].state \in Actionable
        /\ float_compare(Need(op'.moves[1]), 0) > 0
        /\ PropagatedPairs(op'.moves[1]) = {})
       => LET m == op'.moves[1]
              loc == move[m].location_id
              selected ==
                _whole_lot_select_lots(
                    _get_whole_lot_available_quants(Cur, loc), Need(m))
          IN /\ \A T \in {_assign_whole_lots(Cur, << m >>, {})} :
                    quant' = T.quant /\ move' = T.move
             /\ KeepsLines(m)
             /\ Len(NewLines(m)) = Len(selected)
             /\ \A i \in 1..Len(selected) :
                    /\ NewLines(m)[i].lot_id = selected[i].lot_id
                    /\ NewLines(m)[i].quantity = selected[i].available_qty
                    /\ NewLines(m)[i].by = "_assign_whole_lots"
             /\ move'[m].state =
                    StateAfterAttempt(move[m].state,
                        _get_reserved_qty(Cur, m),
                        _get_reserved_qty(After, m),
                        _compute_quantity(move[m].product_uom_qty))
      ]_vars

\* The PICK picking is not done, so the OUT move has nothing propagated, and
\* _assign_whole_lots_from_origin has given the OUT move a line for the lot
\* that is free at Output, made by _assign_whole_lots.
C24_Witness ==
    /\ op.name = "_assign_whole_lots_from_origin"
    /\ op.moves = << "out" >>
    /\ op.before[1].reserved = 0
    /\ move["pick"].state # "done"
    /\ Len(move["out"].move_line_ids) = 1
    /\ move["out"].move_line_ids[1].lot_id = NumLots
    /\ move["out"].move_line_ids[1].by = "_assign_whole_lots"
    /\ quant["Output"][NumLots].reserved_quantity
            = move["out"].move_line_ids[1].quantity
    /\ move["out"].state = "partially_available"

\* The quantity of the lines of lot that the step added to the moves of the
\* recordset that take from loc.
RECURSIVE NewQtyAt(_, _, _)
NewQtyAt(moves, loc, lot) ==
    IF moves = <<>> THEN 0
    ELSE (IF move[Head(moves)].location_id = loc
          THEN SumLinesFor(NewLines(Head(moves)), lot) ELSE 0)
         + NewQtyAt(Tail(moves), loc, lot)

\* C25: in an _action_assign or _assign_whole_lots_from_origin step, every
\* line added to a move of the recordset has a positive quantity, the
\* quantity of the lines added for a lot is exactly what the reserved
\* quantity of the lot grew by at the moves' location, a whole-lot move
\* gets no line for a lot for which the ledger reserved nothing, and each
\* whole-lot move's state is the one that the quantity its lines grew by
\* gives.
C25_ActualReserved ==
    [][op'.name \in {"_action_assign", "_assign_whole_lots_from_origin"}
       => /\ \A i \in 1..Len(op'.moves) :
                LET m == op'.moves[i]
                IN /\ KeepsLines(m)
                   /\ \A j \in 1..Len(NewLines(m)) :
                        float_compare(NewLines(m)[j].quantity, 0) > 0
                   /\ _should_use_whole_lot_strategy(Cur, m)
                      => \/ move'[m].state = move[m].state
                         \/ move'[m].state =
                              StateAfterAttempt(move[m].state,
                                _get_reserved_qty(Cur, m),
                                _get_reserved_qty(After, m),
                                _compute_quantity(move[m].product_uom_qty))
          /\ \A loc \in StockLocations, lot \in Lots :
                /\ quant'[loc][lot].quantity = quant[loc][lot].quantity
                /\ quant'[loc][lot].reserved_quantity
                        - quant[loc][lot].reserved_quantity
                    = NewQtyAt(op'.moves, loc, lot)
                /\ Failed(op'.rejects, lot)
                   => \A i \in 1..Len(op'.moves) :
                        _should_use_whole_lot_strategy(Cur, op'.moves[i])
                        => LinesFor(NewLines(op'.moves[i]), lot) = {}
      ]_vars

\* The ledger returned that it reserved nothing for lot 1, the first lot
\* selected for a demand of 20: lot 1 has no line and nothing reserved,
\* and the line of lot 2 carries what the ledger reserved of lot 2.
C25_Witness ==
    /\ op.name = "_action_assign"
    /\ op.moves = << "pick" >>
    /\ op.rejects = {<< 1, "zero" >>}
    /\ op.before[1].reserved = 0
    /\ move["pick"].product_uom_qty = 20
    /\ quant["Stock"][1].reserved_quantity = 0
    /\ LinesFor(move["pick"].move_line_ids, 1) = {}
    /\ Len(move["pick"].move_line_ids) = 1
    /\ move["pick"].move_line_ids[1].lot_id = 2
    /\ move["pick"].move_line_ids[1].quantity
            = quant["Stock"][2].reserved_quantity
    /\ quant["Stock"][2].reserved_quantity > 0

\* C26: the aggregator returns, for every set of records, its entries in
\* ascending order of in_date, the entries without in_date first, and
\* entries of equal in_date in the order of their lots.
C26_AggregatorOrder ==
    g_pc = "_get_whole_lot_available_quants"
    => /\ ~ g_available.raised
       /\ \A i, j \in 1..Len(g_available.lots) :
            i < j =>
                \/ g_available.lots[i].in_date < g_available.lots[j].in_date
                \/ /\ g_available.lots[i].in_date = g_available.lots[j].in_date
                   /\ g_available.lots[i].lot_id < g_available.lots[j].lot_id

\* What holds of the order: a call that returns gives its entries in
\* ascending order of in_date.
AggregatorOrderWhenReturned ==
    (g_pc = "_get_whole_lot_available_quants" /\ ~ g_available.raised)
    => \A i, j \in 1..Len(g_available.lots) :
            i < j => g_available.lots[i].in_date <= g_available.lots[j].in_date

\* Reached when two entries of equal in_date come back with the higher lot
\* first: the record of the higher lot has the lower id.
TieInRecordOrder ==
    /\ g_pc = "_get_whole_lot_available_quants"
    /\ ~ g_available.raised
    /\ Len(g_available.lots) = 2
    /\ g_available.lots[1].in_date = g_available.lots[2].in_date
    /\ g_available.lots[1].lot_id > g_available.lots[2].lot_id

\* Reached when one free lot has an in_date and another has none: the sort
\* raises.
MixedInDatesRaise ==
    /\ g_pc = "_get_whole_lot_available_quants"
    /\ g_available.raised
    /\ Len(g_quants) = 2

\* quantity - reserved_quantity added up over all the records of a lot.
AggregatedFree(lot) ==
    LET of_lot == SelectSeq(g_quants, LAMBDA q : q.lot_id = lot)
    IN SumQuantity(of_lot) - SumReserved(of_lot)
EntriesOf(lot) ==
    {i \in 1..Len(g_available'.lots) : g_available'.lots[i].lot_id = lot}

\* C27: a call of the aggregator changes no record, and when it returns
\* it gives exactly one entry, carrying the aggregated free quantity, for
\* each lot whose records add up to a free quantity above zero, and no
\* entry for any other lot.
C27_OneEntryPerFreeLot ==
    [][g_pc' = "_get_whole_lot_available_quants"
       => /\ g_quants' = g_quants
          /\ quant' = quant /\ move' = move
          /\ ~ g_available'.raised
             => \A lot \in QuantLots :
                    IF float_compare(AggregatedFree(lot), 0) > 0
                    THEN \E i \in 1..Len(g_available'.lots) :
                            /\ EntriesOf(lot) = {i}
                            /\ g_available'.lots[i].available_qty
                                    = AggregatedFree(lot)
                    ELSE EntriesOf(lot) = {}
      ]_vars

\* Lot 1 has two records that add up to a free quantity of 8 and comes back
\* as one entry of 8; lot 2 has one record with nothing free (quantity 0,
\* reserved 6) and has no entry.
C27_Witness ==
    /\ g_pc = "_get_whole_lot_available_quants"
    /\ ~ g_available.raised
    /\ Len(g_quants) = 3
    /\ Len(SelectSeq(g_quants, LAMBDA q : q.lot_id = 1)) = 2
    /\ \E k \in 1..Len(g_quants) :
            /\ g_quants[k].lot_id = 2
            /\ g_quants[k].quantity = 0 /\ g_quants[k].reserved_quantity = 6
    /\ Len(g_available.lots) = 1
    /\ g_available.lots[1].lot_id = 1
    /\ g_available.lots[1].available_qty = 8

\* Reached when the records of a lot add up to zero because one of them is
\* negative (10 - 6 and -4): the lot has no entry.
NegativeRecordCancelsFree ==
    /\ g_pc = "_get_whole_lot_available_quants"
    /\ ~ g_available.raised
    /\ \E i, j \in 1..Len(g_quants) :
            /\ g_quants[i].lot_id = 1 /\ g_quants[j].lot_id = 1
            /\ g_quants[i].quantity = -4 /\ g_quants[j].quantity = 10
    /\ Len(SelectSeq(g_quants, LAMBDA q : q.lot_id = 1)) = 2
    /\ \A i \in 1..Len(g_available.lots) : g_available.lots[i].lot_id # 1

\* C28: an _action_assign or _assign_whole_lots_from_origin step lowers the
\* reserved quantity of no lot at no location, whether the ledger grants,
\* raises or reserves nothing, and takes no line away from a move.
C28_ReservedNonDecreasing ==
    [][op'.name \in {"_action_assign", "_assign_whole_lots_from_origin"}
       => /\ \A loc \in StockLocations, lot \in Lots :
                quant'[loc][lot].reserved_quantity
                    >= quant[loc][lot].reserved_quantity
          /\ \A m \in MoveIds : KeepsLines(m)
      ]_vars

\* The PICK move, partially available with lot 1 reserved, was allocated
\* again while the ledger raised for lot 1: lot 1 is reserved as before.
C28_Witness ==
    /\ op.name = "_action_assign"
    /\ op.moves = << "pick" >>
    /\ op.rejects = {<< 1, "raise" >>}
    /\ op.before[1].state = "partially_available"
    /\ op.before[1].reserved > 0
    /\ _get_reserved_qty(Cur, "pick") = op.before[1].reserved
    /\ LinesFor(move["pick"].move_line_ids, 1) # {}
    /\ quant["Stock"][1].reserved_quantity = quant["Stock"][1].quantity

\* Reached when button_validate's reconciliation has released a lot: the
\* lot was on the backorder's lines and is reserved by nothing afterwards.
ReconciliationLowersReserved ==
    /\ op.name = "button_validate"
    /\ \E lot \in op.bo_before :
            /\ lot \notin LineLots(move["bo"].move_line_ids)
            /\ lot \notin LineLots(move["pick"].move_line_ids)
            /\ quant["Stock"][lot].quantity > 0
            /\ quant["Stock"][lot].reserved_quantity = 0

\* The move is left assigned only with lines that cover its demand, and is
\* not left assigned without lines.
StateMatchesLines(S, m) ==
    /\ S.move[m].state = "assigned"
       => float_compare(_get_reserved_qty(S, m),
                        _compute_quantity(S.move[m].product_uom_qty)) >= 0
    /\ S.move[m].move_line_ids = <<>> => S.move[m].state # "assigned"

\* C29: after _action_assign or _assign_whole_lots_from_origin has worked
\* on a whole-lot move, and after button_validate's reconciliation has
\* changed the backorder move, the move is assigned only if the quantities
\* of its lines add up to at least its demand, and it is not assigned when
\* it has no lines.
C29_AssignedMeansCovered ==
    [][/\ op'.name \in {"_action_assign", "_assign_whole_lots_from_origin"}
          => \A i \in 1..Len(op'.moves) :
                (/\ _should_use_whole_lot_strategy(Cur, op'.moves[i])
                 /\ move'[op'.moves[i]] # move[op'.moves[i]])
                => StateMatchesLines(After, op'.moves[i])
       /\ op'.name = "button_validate"
          => \A S1 \in {BeforeBackorderStep(Cur, "pick", op'.picked,
                                              op'.auto, {})} :
                move'["bo"] # S1.move["bo"]
                => StateMatchesLines(After, "bo")
      ]_vars

\* What holds: _action_assign and _assign_whole_lots_from_origin leave the
\* whole-lot moves they change with a state that matches their lines.
AllocateStateMatchesLines ==
    [][op'.name \in {"_action_assign", "_assign_whole_lots_from_origin"}
          => \A i \in 1..Len(op'.moves) :
                (/\ _should_use_whole_lot_strategy(Cur, op'.moves[i])
                 /\ move'[op'.moves[i]] # move[op'.moves[i]])
                => StateMatchesLines(After, op'.moves[i])
      ]_vars

\* Reached when the reconciliation took the lines of an assigned backorder
\* move away, created none, and left the move assigned.
AssignedWithoutLines ==
    /\ op.name = "button_validate"
    /\ op.bo_before # {}
    /\ move["bo"].move_line_ids = <<>>
    /\ move["bo"].state = "assigned"

\* C30: for every list of entries with positive quantities and distinct
\* lots and every need, _whole_lot_select_lots returns the first entry equal
\* to the need when there is one, and otherwise exactly what the greedy FIFO
\* pass selected: the last scan adds nothing.
C30_GapFillAddsNothing ==
    sel_pc = "return"
    => sel_result =
        IF sel_lots = <<>> THEN <<>>
        ELSE IF ExactMatches(sel_lots, sel_need) # {}
             THEN << sel_lots[CHOOSE i \in ExactMatches(sel_lots, sel_need) :
                        \A j \in ExactMatches(sel_lots, sel_need) : i <= j] >>
             ELSE GreedyPass(sel_lots, sel_need).selected

\* Lots of 8, 6 and 10 and a need of 15: the greedy pass took 8 and 6 and
\* left a need of 1 with the lot of 10 unselected, and the selector returned
\* the lots of 8 and 6.
C30_Witness ==
    /\ sel_pc = "return"
    /\ sel_need = 15
    /\ Len(sel_lots) = 3
    /\ sel_lots[1].available_qty = 8
    /\ sel_lots[2].available_qty = 6
    /\ sel_lots[3].available_qty = 10
    /\ float_compare(GreedyPass(sel_lots, sel_need).remaining_need, 0) > 0
    /\ sel_result = << sel_lots[1], sel_lots[2] >>

\* The lot and the quantity of each line, in the order of the lines.
Records(lines) == [i \in 1..Len(lines) |-> << lines[i].lot_id, lines[i].quantity >>]

\* C31: when _assign_whole_lots_to_backorder runs again right after the
\* button_validate that ran it, or right after another run of it, every
\* quant, the lot and quantity of every line of every move, and every
\* move's state stay as the earlier run left them.
C31_ReconciliationIdempotent ==
    [][(/\ op'.name = "_assign_whole_lots_to_backorder"
        /\ op.name \in {"button_validate", "_assign_whole_lots_to_backorder"})
       => /\ quant' = quant
          /\ \A m \in MoveIds :
                /\ Records(move'[m].move_line_ids) = Records(move[m].move_line_ids)
                /\ move'[m].state = move[m].state
      ]_vars

\* The second run found a backorder move holding only part of the pending
\* lots (lot 1 of {1, 2} is pending and present, lot 2 is not at Stock any
\* more), so it did not skip: it released and re-made the line.
C31_Witness ==
    /\ op.name = "_assign_whole_lots_to_backorder"
    /\ move["bo"].state \in (Actionable \cup {"assigned"})
    /\ PendingLotIds(Cur) # {}
    /\ op.bo_before # {}
    /\ op.bo_before # PendingLotIds(Cur)
    /\ LineLots(move["bo"].move_line_ids) = op.bo_before
    /\ \A i \in 1..Len(move["bo"].move_line_ids) :
            move["bo"].move_line_ids[i].by = "_assign_whole_lots_to_backorder"

\* Reached when the first run gave the backorder move a line for a lot that
\* had nothing free and left it with only part of the pending lots: the
\* next run does not skip.
PartialWithZeroFreeLot ==
    /\ op.name = "button_validate"
    /\ move["bo"].state \in (Actionable \cup {"assigned"})
    /\ LineLots(move["bo"].move_line_ids) # PendingLotIds(Cur)
    /\ \E i \in 1..Len(move["bo"].move_line_ids) :
            /\ move["bo"].move_line_ids[i].by = "_assign_whole_lots_to_backorder"
            /\ move["bo"].move_line_ids[i].free_at <= 0

\* The quantity of the lines of a lot on the two moves that take from Stock.
RecordedAtStock(lot) ==
    SumLinesFor(move["pick"].move_line_ids, lot)
        + SumLinesFor(move["other"].move_line_ids, lot)

\* C32: however the readings and the ledger calls of two runs of
\* _assign_whole_lots and reservations from outside follow one another, the
\* lines made for a lot add up to at most what is reserved of the lot, and
\* that to at most the lot's physical quantity.
C32_InterleavedPasses ==
    \A lot \in Lots :
        /\ RecordedAtStock(lot) <= quant["Stock"][lot].reserved_quantity
        /\ quant["Stock"][lot].reserved_quantity <= quant["Stock"][lot].quantity

\* Both runs selected lot 2 from their readings, so the reading of OTHER came
\* before the ledger call of PICK; both runs have ended, PICK holds the line
\* of lot 2 and OTHER, whose ledger call came second, has none.
C32_Witness ==
    /\ pass["pick"].pc = "idle" /\ pass["other"].pc = "idle"
    /\ 2 \in LotIdsOf(pass["pick"].read)
    /\ 2 \in LotIdsOf(pass["other"].read)
    /\ LinesFor(move["pick"].move_line_ids, 2) # {}
    /\ LinesFor(move["other"].move_line_ids, 2) = {}
    /\ RecordedAtStock(2) = quant["Stock"][2].quantity

\* Reached when a reservation from outside came between the reading and the
\* ledger call: the line carries what the ledger still granted, less than
\* the quantity read.
GrantedLessThanRead ==
    \E m \in Passes :
        \E i \in 1..Len(pass[m].read) :
        \E j \in 1..Len(move[m].move_line_ids) :
            /\ move[m].move_line_ids[j].lot_id = pass[m].read[i].lot_id
            /\ move[m].move_line_ids[j].quantity < pass[m].read[i].available_qty
            /\ op.name = "_assign_whole_lots"
            /\ pass[m].pc = "reserve"
====
